---------------------------- MODULE Spec2Model ----------------------------
(***************************************************************************)
(* A model of the sandbox-transition system calls of libcontainer          *)
(* (crates/libcontainer/src/syscall/linux.rs) and of the raw-override      *)
(* ("unified") controller of libcgroups                                    *)
(* (crates/libcgroups/src/systemd/unified.rs).                             *)
(*                                                                         *)
(* One behaviour of the model is one call of one operation: Init is the    *)
(* process before the call, a Call action draws the arguments and the      *)
(* process state the call starts from, and then one action per statement   *)
(* of the operation runs it to its return.  The operating system's answer  *)
(* to every request is an input: "ok" or an errno.                         *)
(***************************************************************************)
EXTENDS Integers, Sequences, FiniteSets, TLC

(***************************************************************************)
(* Bounds of the model.                                                    *)
(***************************************************************************)
MaxId == 1
MaxFd == 5
MaxPreserve == 1
NCaps == 4
MaxEntries == 2

VARIABLES
    op,          \* the operation being run, "idle" before the call
    pc,          \* the statement the operation is at, "ret" once returned
    result,      \* what the operation returned: Pending, Ok or Err(e)
    trace,       \* the operating-system requests made so far, in order
    \* ---- pivot_rootfs
    path,        \* argument: the new root
    newroot,     \* the directory handle: "none", "open" or "closed"
    mnt,         \* the mount namespace: root, old root, working directory
    \* ---- set_id
    uid, gid,    \* arguments
    ids,         \* real/effective/saved ids of the process
    ids0,        \* the ids before the call
    keepcaps,    \* the PR_SET_KEEPCAPS flag of the process
    keepcaps0,   \* the flag before the call
    \* ---- close_range / emulate_close_range
    preserve_fds, \* argument
    fds,         \* descriptor table: "closed", "open" or "cloexec"
    fds0,        \* the table before the call
    cleanup,     \* to_be_cleaned_up_fds: what the fallback has still to mark
    \* ---- set_capability
    cset, value, \* arguments
    capsets,     \* the capability sets of the process
    capsets0,    \* the sets before the call
    todrop,      \* Bounding: what the loop has still to visit
    \* ---- Unified::apply
    unified,         \* argument: the override map, key -> value string
    systemd_version, \* argument
    properties,      \* argument (in/out): property name -> Value
    properties0,     \* the property set before the call
    todo,            \* the entries the loop has still to visit
    cur,             \* the key of the entry visited last
    applied,         \* what apply returned: APending, AOk or an AErr
    \* ---- MountOption::from_str, MountRecursive::from_str, MountAttr::all
    token,           \* argument: the token
    parsed_option,   \* what from_str returned
    attr,            \* the MountAttr built
    \* ---- the systemd client
    cargs,           \* arguments: container_name, pid, parent, unit_name, properties
    version,         \* systemd_version: the Version string the bus reported
    cresult          \* what the client operation returned

pivotvars == <<path, newroot, mnt>>
idvars == <<uid, gid, ids, ids0, keepcaps, keepcaps0>>
fdvars == <<preserve_fds, fds, fds0, cleanup>>
capvars == <<cset, value, capsets, capsets0, todrop>>
applyvars == <<unified, systemd_version, properties, properties0, todo, cur, applied>>
mountvars == <<token, parsed_option, attr>>
clientvars == <<cargs, version, cresult>>
vars == <<op, pc, result, trace, pivotvars, idvars, fdvars, capvars, applyvars, mountvars,
          clientvars>>

\* What an operation leaves alone: the state of the other operations.
notpivot == <<idvars, fdvars, capvars, applyvars, mountvars, clientvars>>
notid == <<pivotvars, fdvars, capvars, applyvars, mountvars, clientvars>>
notfd == <<pivotvars, idvars, capvars, applyvars, mountvars, clientvars>>
notcap == <<pivotvars, idvars, fdvars, applyvars, mountvars, clientvars>>
notapply == <<result, trace, pivotvars, idvars, fdvars, capvars, mountvars, clientvars>>
notmount == <<result, trace, pivotvars, idvars, fdvars, capvars, applyvars, clientvars>>
notclient == <<result, pivotvars, idvars, fdvars, capvars, applyvars, mountvars>>

(***************************************************************************)
(* Results and the operating system's answers.                             *)
(***************************************************************************)
Errnos == {"ENOSYS", "EINVAL", "EPERM"}
Outcomes == {"ok"} \cup Errnos

Pending == [kind |-> "pending", err |-> "none"]
Ok == [kind |-> "ok", err |-> "none"]
Err(e) == [kind |-> "err", err |-> e]

\* A request as the trace records it: its name, its arguments, its answer.
Req(call, args, ret) == <<call, args, ret>>

Min(S) == CHOOSE x \in S : \A y \in S : x <= y
Max(S) == CHOOSE x \in S : \A y \in S : x >= y

(***************************************************************************)
(* pivot_rootfs                                                            *)
(***************************************************************************)
Paths == {"/rootfs", "/bundle/rootfs"}

Mnt0 == [root |-> "host", oldroot |-> "none", cwd |-> "host"]

CallPivotRootfs ==
    /\ op = "idle"
    /\ \E p \in Paths : path' = p
    /\ op' = "pivot_rootfs"
    /\ pc' = "open"
    /\ UNCHANGED <<result, trace, newroot, mnt, notpivot>>

\* open(path, O_DIRECTORY | O_RDONLY | O_CLOEXEC, Mode::empty())?
PivotRootfsOpen ==
    /\ op = "pivot_rootfs" /\ pc = "open"
    /\ \E r \in Outcomes :
         /\ trace' = Append(trace,
                Req("open", <<path, "O_DIRECTORY|O_RDONLY|O_CLOEXEC">>, r))
         /\ IF r = "ok"
            THEN newroot' = "open" /\ pc' = "pivot_root" /\ UNCHANGED result
            ELSE newroot' = newroot /\ pc' = "ret" /\ result' = Err(r)
    /\ UNCHANGED <<op, path, mnt, notpivot>>

\* pivot_root(path, path)?  The old root is stacked on the new root.
PivotRootfsPivotRoot ==
    /\ op = "pivot_rootfs" /\ pc = "pivot_root"
    /\ \E r \in Outcomes :
         /\ trace' = Append(trace, Req("pivot_root", <<path, path>>, r))
         /\ IF r = "ok"
            THEN /\ mnt' = [mnt EXCEPT !.root = path, !.oldroot = "stacked"]
                 /\ pc' = "mount" /\ UNCHANGED result
            ELSE mnt' = mnt /\ pc' = "ret" /\ result' = Err(r)
    /\ UNCHANGED <<op, path, newroot, notpivot>>

\* Mutant: the slave remount of "/" is left out.
PivotRootfsMount_Skipped ==
    /\ op = "pivot_rootfs" /\ pc = "mount"
    /\ pc' = "umount2"
    /\ UNCHANGED <<op, result, trace, pivotvars, notpivot>>

\* mount(None, "/", None, MS_SLAVE | MS_REC, None)?
PivotRootfsMount ==
    /\ op = "pivot_rootfs" /\ pc = "mount"
    /\ \E r \in Outcomes :
         /\ trace' = Append(trace, Req("mount", <<"/", "MS_SLAVE|MS_REC">>, r))
         /\ IF r = "ok"
            THEN /\ mnt' = [mnt EXCEPT !.oldroot = "stacked_rslave"]
                 /\ pc' = "umount2" /\ UNCHANGED result
            ELSE mnt' = mnt /\ pc' = "ret" /\ result' = Err(r)
    /\ UNCHANGED <<op, path, newroot, notpivot>>

\* Mutant: a failed detach-unmount is logged and the sequence goes on.
PivotRootfsUmount2_ErrorIgnored ==
    /\ op = "pivot_rootfs" /\ pc = "umount2"
    /\ \E r \in Outcomes :
         /\ trace' = Append(trace, Req("umount2", <<"/", "MNT_DETACH">>, r))
         /\ mnt' = IF r = "ok" THEN [mnt EXCEPT !.oldroot = "detached"] ELSE mnt
         /\ pc' = "fchdir" /\ UNCHANGED result
    /\ UNCHANGED <<op, path, newroot, notpivot>>

\* umount2("/", MNT_DETACH)?
PivotRootfsUmount2 ==
    /\ op = "pivot_rootfs" /\ pc = "umount2"
    /\ \E r \in Outcomes :
         /\ trace' = Append(trace, Req("umount2", <<"/", "MNT_DETACH">>, r))
         /\ IF r = "ok"
            THEN /\ mnt' = [mnt EXCEPT !.oldroot = "detached"]
                 /\ pc' = "fchdir" /\ UNCHANGED result
            ELSE mnt' = mnt /\ pc' = "ret" /\ result' = Err(r)
    /\ UNCHANGED <<op, path, newroot, notpivot>>

\* Mutant: a failed fchdir closes the handle before the error is returned.
PivotRootfsFchdir_ClosedOnError ==
    /\ op = "pivot_rootfs" /\ pc = "fchdir"
    /\ \E r \in Outcomes :
         /\ trace' = Append(trace, Req("fchdir", <<"newroot">>, r))
         /\ IF r = "ok"
            THEN /\ mnt' = [mnt EXCEPT !.cwd = path]
                 /\ newroot' = newroot
                 /\ pc' = "close" /\ UNCHANGED result
            ELSE mnt' = mnt /\ newroot' = "closed" /\ pc' = "ret" /\ result' = Err(r)
    /\ UNCHANGED <<op, path, notpivot>>

\* fchdir(newroot)?
PivotRootfsFchdir ==
    /\ op = "pivot_rootfs" /\ pc = "fchdir"
    /\ \E r \in Outcomes :
         /\ trace' = Append(trace, Req("fchdir", <<"newroot">>, r))
         /\ IF r = "ok"
            THEN /\ mnt' = [mnt EXCEPT !.cwd = path]
                 /\ pc' = "close" /\ UNCHANGED result
            ELSE mnt' = mnt /\ pc' = "ret" /\ result' = Err(r)
    /\ UNCHANGED <<op, path, newroot, notpivot>>

\* close(newroot)?; Ok(()).  Linux releases the descriptor whatever close
\* answers.
PivotRootfsClose ==
    /\ op = "pivot_rootfs" /\ pc = "close"
    /\ \E r \in Outcomes :
         /\ trace' = Append(trace, Req("close", <<"newroot">>, r))
         /\ newroot' = "closed"
         /\ pc' = "ret"
         /\ result' = IF r = "ok" THEN Ok ELSE Err(r)
    /\ UNCHANGED <<op, path, mnt, notpivot>>

(***************************************************************************)
(* set_id                                                                  *)
(***************************************************************************)
Ids == 0..MaxId

IdState(ru, eu, rg, eg) ==
    [ruid |-> ru, euid |-> eu, suid |-> eu, rgid |-> rg, egid |-> eg, sgid |-> eg]

Ids0 == IdState(0, 0, 0, 0)

CallSetId ==
    /\ op = "idle"
    /\ \E u \in Ids, g \in Ids : uid' = u /\ gid' = g
    /\ \E ru \in Ids, eu \in Ids, rg \in Ids, eg \in Ids :
         ids' = IdState(ru, eu, rg, eg) /\ ids0' = IdState(ru, eu, rg, eg)
    /\ \E k \in BOOLEAN : keepcaps' = k /\ keepcaps0' = k
    /\ op' = "set_id"
    /\ pc' = "keepcaps_on"
    /\ UNCHANGED <<result, trace, notid>>

\* prctl::set_keep_capabilities(true)?
SetIdKeepCapsOn ==
    /\ op = "set_id" /\ pc = "keepcaps_on"
    /\ \E r \in Outcomes :
         /\ trace' = Append(trace, Req("set_keep_capabilities", <<"true">>, r))
         /\ IF r = "ok"
            THEN keepcaps' = TRUE /\ pc' = "setresgid" /\ UNCHANGED result
            ELSE keepcaps' = keepcaps /\ pc' = "ret" /\ result' = Err(r)
    /\ UNCHANGED <<op, uid, gid, ids, ids0, keepcaps0, notid>>

\* Mutant: only the effective group id is set (setegid).
SetIdSetresgid_EffectiveOnly ==
    /\ op = "set_id" /\ pc = "setresgid"
    /\ \E r \in Outcomes :
         /\ trace' = Append(trace, Req("setresgid", <<gid, gid, gid>>, r))
         /\ IF r = "ok"
            THEN /\ ids' = [ids EXCEPT !.egid = gid]
                 /\ pc' = "setresuid" /\ UNCHANGED result
            ELSE ids' = ids /\ pc' = "ret" /\ result' = Err(r)
    /\ UNCHANGED <<op, uid, gid, ids0, keepcaps, keepcaps0, notid>>

\* syscall(SYS_setresgid, gid, gid, gid) == -1 => return Err(errno)
SetIdSetresgid ==
    /\ op = "set_id" /\ pc = "setresgid"
    /\ \E r \in Outcomes :
         /\ trace' = Append(trace, Req("setresgid", <<gid, gid, gid>>, r))
         /\ IF r = "ok"
            THEN /\ ids' = [ids EXCEPT !.rgid = gid, !.egid = gid, !.sgid = gid]
                 /\ pc' = "setresuid" /\ UNCHANGED result
            ELSE ids' = ids /\ pc' = "ret" /\ result' = Err(r)
    /\ UNCHANGED <<op, uid, gid, ids0, keepcaps, keepcaps0, notid>>

\* syscall(SYS_setresuid, uid, uid, uid) == -1 => return Err(errno);
\* then the branch on uid != 0.
SetIdSetresuid ==
    /\ op = "set_id" /\ pc = "setresuid"
    /\ \E r \in Outcomes :
         /\ trace' = Append(trace, Req("setresuid", <<uid, uid, uid>>, r))
         /\ IF r = "ok"
            THEN /\ ids' = [ids EXCEPT !.ruid = uid, !.euid = uid, !.suid = uid]
                 /\ pc' = IF uid # 0 THEN "reset_effective" ELSE "keepcaps_off"
                 /\ UNCHANGED result
            ELSE ids' = ids /\ pc' = "ret" /\ result' = Err(r)
    /\ UNCHANGED <<op, uid, gid, ids0, keepcaps, keepcaps0, notid>>

\* capabilities::reset_effective(self)?  The callee is outside this source
\* tree: the call and its answer are what set_id sees of it.
SetIdResetEffective ==
    /\ op = "set_id" /\ pc = "reset_effective"
    /\ \E r \in Outcomes :
         /\ trace' = Append(trace, Req("reset_effective", <<>>, r))
         /\ IF r = "ok"
            THEN pc' = "keepcaps_off" /\ UNCHANGED result
            ELSE pc' = "ret" /\ result' = Err(r)
    /\ UNCHANGED <<op, uid, gid, ids, ids0, keepcaps, keepcaps0, notid>>

\* Mutant: the flag is set to true a second time instead of cleared.
SetIdKeepCapsOff_StaysOn ==
    /\ op = "set_id" /\ pc = "keepcaps_off"
    /\ \E r \in Outcomes :
         /\ trace' = Append(trace, Req("set_keep_capabilities", <<"true">>, r))
         /\ pc' = "ret"
         /\ IF r = "ok"
            THEN keepcaps' = TRUE /\ result' = Ok
            ELSE keepcaps' = keepcaps /\ result' = Err(r)
    /\ UNCHANGED <<op, uid, gid, ids, ids0, keepcaps0, notid>>

\* prctl::set_keep_capabilities(false)?; Ok(())
SetIdKeepCapsOff ==
    /\ op = "set_id" /\ pc = "keepcaps_off"
    /\ \E r \in Outcomes :
         /\ trace' = Append(trace, Req("set_keep_capabilities", <<"false">>, r))
         /\ pc' = "ret"
         /\ IF r = "ok"
            THEN keepcaps' = FALSE /\ result' = Ok
            ELSE keepcaps' = keepcaps /\ result' = Err(r)
    /\ UNCHANGED <<op, uid, gid, ids, ids0, keepcaps0, notid>>

(***************************************************************************)
(* close_range and its userspace fallback emulate_close_range              *)
(***************************************************************************)
Fds == 0..MaxFd
FdStates == {"closed", "open", "cloexec"}

\* The table of a process that holds only stdin, stdout and stderr.
StdioOnly == [fd \in Fds |-> IF fd < 3 THEN "open" ELSE "closed"]

IsOpen(t, fd) == fd \in DOMAIN t /\ t[fd] # "closed"

\* The kernel's close_range(first, last = INT_MAX, CLOSE_RANGE_CLOEXEC): every
\* open descriptor from first on gets close-on-exec; nothing is closed.
KernelCloseRangeCloexec(t, first) ==
    [fd \in DOMAIN t |-> IF fd >= first /\ t[fd] # "closed" THEN "cloexec" ELSE t[fd]]

\* The descriptor a new open() gets: the lowest free one.
LowestFree(t) == Min({fd \in DOMAIN t : t[fd] = "closed"} \cup {MaxFd + 1})

\* get_open_fds: the entries of /proc/self/fd, in the order procfs lists them
\* (ascending).  The directory handle read_dir holds while listing is itself
\* an entry; it is closed when the statement ends.
SeqOfSet(S) ==
    LET f[T \in SUBSET S] ==
          IF T = {} THEN <<>> ELSE <<Min(T)>> \o f[T \ {Min(T)}]
    IN f[S]

get_open_fds(t) == SeqOfSet({fd \in DOMAIN t : t[fd] # "closed"} \cup {LowestFree(t)})

\* Mutant: stdin, stdout and stderr are not counted in.
ToBeCleanedUp_NoStdio(open_fds, preserve) ==
    LET min_fd == preserve
    IN SelectSeq(open_fds, LAMBDA fd : fd >= min_fd)

\* let min_fd = preserve_fds + 3; the filter_map keeps fd >= min_fd.
ToBeCleanedUp(open_fds, preserve) ==
    LET min_fd == preserve + 3
    IN SelectSeq(open_fds, LAMBDA fd : fd >= min_fd)

CallCloseRange ==
    /\ op = "idle"
    /\ \E p \in 0..MaxPreserve : preserve_fds' = p
    /\ \E t \in [Fds -> FdStates] : fds' = t /\ fds0' = t
    /\ op' = "close_range"
    /\ pc' = "syscall"
    /\ UNCHANGED <<result, trace, cleanup, notfd>>

\* The test calls the fallback directly.
CallEmulateCloseRange ==
    /\ op = "idle"
    /\ \E p \in 0..MaxPreserve : preserve_fds' = p
    /\ \E t \in [Fds -> FdStates] : fds' = t /\ fds0' = t
    /\ op' = "emulate_close_range"
    /\ pc' = "get_open_fds"
    /\ UNCHANGED <<result, trace, cleanup, notfd>>

\* Mutant: every failure of the kernel request goes to the fallback.
CloseRangeSyscall_FallbackOnAny ==
    /\ op = "close_range" /\ pc = "syscall"
    /\ \E r \in Outcomes :
         /\ trace' = Append(trace,
                Req("close_range", <<3 + preserve_fds, "INT_MAX", "CLOSE_RANGE_CLOEXEC">>, r))
         /\ IF r = "ok"
            THEN /\ fds' = KernelCloseRangeCloexec(fds, 3 + preserve_fds)
                 /\ pc' = "ret" /\ result' = Ok
            ELSE fds' = fds /\ pc' = "get_open_fds" /\ UNCHANGED result
    /\ UNCHANGED <<op, preserve_fds, fds0, cleanup, notfd>>

\* match syscall(SYS_close_range, 3 + preserve_fds, c_int::MAX, CLOSE_RANGE_CLOEXEC)
\* The kernel answers 0 or -1 with errno.
CloseRangeSyscall ==
    /\ op = "close_range" /\ pc = "syscall"
    /\ \E r \in Outcomes :
         /\ trace' = Append(trace,
                Req("close_range", <<3 + preserve_fds, "INT_MAX", "CLOSE_RANGE_CLOEXEC">>, r))
         /\ IF r = "ok"
            THEN /\ fds' = KernelCloseRangeCloexec(fds, 3 + preserve_fds)
                 /\ pc' = "ret" /\ result' = Ok
            ELSE IF r \in {"ENOSYS", "EINVAL"}
            THEN fds' = fds /\ pc' = "get_open_fds" /\ UNCHANGED result
            ELSE fds' = fds /\ pc' = "ret" /\ result' = Err(r)
    /\ UNCHANGED <<op, preserve_fds, fds0, cleanup, notfd>>

\* let open_fds = Self::get_open_fds()?; and the filter on min_fd.
EmulateGetOpenFds ==
    /\ op \in {"close_range", "emulate_close_range"} /\ pc = "get_open_fds"
    /\ \E r \in Outcomes :
         /\ trace' = Append(trace, Req("read_dir", <<"/proc/self/fd">>, r))
         /\ IF r = "ok"
            THEN /\ cleanup' = ToBeCleanedUp(get_open_fds(fds), preserve_fds)
                 /\ pc' = "fcntl" /\ UNCHANGED result
            ELSE cleanup' = cleanup /\ pc' = "ret" /\ result' = Err(r)
    /\ UNCHANGED <<op, preserve_fds, fds, fds0, notfd>>

\* let _ = fcntl(fd, F_SETFD(FD_CLOEXEC)); the answer is ignored.
EmulateFcntl ==
    /\ op \in {"close_range", "emulate_close_range"} /\ pc = "fcntl"
    /\ cleanup # <<>>
    /\ LET fd == Head(cleanup)
       IN /\ trace' = Append(trace,
                 Req("fcntl", <<fd, "F_SETFD", "FD_CLOEXEC">>,
                     IF IsOpen(fds, fd) THEN "ok" ELSE "EBADF"))
          /\ fds' = IF IsOpen(fds, fd) THEN [fds EXCEPT ![fd] = "cloexec"] ELSE fds
    /\ cleanup' = Tail(cleanup)
    /\ UNCHANGED <<op, pc, result, preserve_fds, fds0, notfd>>

\* Ok(())
EmulateReturn ==
    /\ op \in {"close_range", "emulate_close_range"} /\ pc = "fcntl"
    /\ cleanup = <<>>
    /\ pc' = "ret"
    /\ result' = Ok
    /\ UNCHANGED <<op, trace, fdvars, notfd>>

(***************************************************************************)
(* set_capability                                                          *)
(***************************************************************************)
Caps == 1..NCaps
CapSetNames == {"Effective", "Permitted", "Inheritable", "Bounding", "Ambient"}

CallSetCapability ==
    /\ op = "idle"
    /\ \E cs \in CapSetNames : cset' = cs
    /\ \E v \in SUBSET Caps : value' = v
    /\ \E b \in SUBSET Caps :
         /\ capsets' = [s \in CapSetNames |-> b]
         /\ capsets0' = [s \in CapSetNames |-> b]
    /\ op' = "set_capability"
    /\ pc' = IF cset' = "Bounding" THEN "read" ELSE "set"
    /\ UNCHANGED <<result, trace, todrop, notcap>>

\* Mutant: the difference is taken the wrong way round.
SetCapabilityRead_Inverted ==
    /\ op = "set_capability" /\ pc = "read"
    /\ \E r \in Outcomes :
         /\ trace' = Append(trace, Req("caps::read", <<"Bounding">>, r))
         /\ IF r = "ok"
            THEN /\ todrop' = value \ capsets["Bounding"]
                 /\ pc' = "drop" /\ UNCHANGED result
            ELSE todrop' = todrop /\ pc' = "ret" /\ result' = Err(r)
    /\ UNCHANGED <<op, cset, value, capsets, capsets0, notcap>>

\* let all = caps::read(None, CapSet::Bounding)?; all.difference(value)
SetCapabilityRead ==
    /\ op = "set_capability" /\ pc = "read"
    /\ \E r \in Outcomes :
         /\ trace' = Append(trace, Req("caps::read", <<"Bounding">>, r))
         /\ IF r = "ok"
            THEN /\ todrop' = capsets["Bounding"] \ value
                 /\ pc' = "drop" /\ UNCHANGED result
            ELSE todrop' = todrop /\ pc' = "ret" /\ result' = Err(r)
    /\ UNCHANGED <<op, cset, value, capsets, capsets0, notcap>>

\* for c in all.difference(value) { caps::drop(None, CapSet::Bounding, *c)? }
\* A hash set is visited in no particular order.
SetCapabilityDrop ==
    /\ op = "set_capability" /\ pc = "drop"
    /\ \E c \in todrop, r \in Outcomes :
         /\ trace' = Append(trace, Req("caps::drop", <<"Bounding", c>>, r))
         /\ IF r = "ok"
            THEN /\ capsets' = [capsets EXCEPT !["Bounding"] = @ \ {c}]
                 /\ todrop' = todrop \ {c}
                 /\ UNCHANGED <<pc, result>>
            ELSE /\ UNCHANGED <<capsets, todrop>>
                 /\ pc' = "ret" /\ result' = Err(r)
    /\ UNCHANGED <<op, cset, value, capsets0, notcap>>

\* _ => caps::set(None, cset, value)?
SetCapabilitySet ==
    /\ op = "set_capability" /\ pc = "set"
    /\ \E r \in Outcomes :
         /\ trace' = Append(trace, Req("caps::set", <<cset, value>>, r))
         /\ pc' = "ret"
         /\ IF r = "ok"
            THEN capsets' = [capsets EXCEPT ![cset] = value] /\ result' = Ok
            ELSE capsets' = capsets /\ result' = Err(r)
    /\ UNCHANGED <<op, cset, value, capsets0, todrop, notcap>>

\* Ok(()) once the loop has visited every capability of the difference.
SetCapabilityReturn ==
    /\ op = "set_capability" /\ pc = "drop"
    /\ todrop = {}
    /\ pc' = "ret"
    /\ result' = Ok
    /\ UNCHANGED <<op, trace, capvars, notcap>>

(***************************************************************************)
(* Strings.  A string is the sequence of its characters, so that parsing   *)
(* and splitting are computed character by character as the library does.  *)
(***************************************************************************)
DigitChars == <<"0", "1", "2", "3", "4", "5", "6", "7", "8", "9">>
IsDigit(c) == \E i \in 1..10 : DigitChars[i] = c
DigitVal(c) == (CHOOSE i \in 1..10 : DigitChars[i] = c) - 1
IsWhitespace(c) == c \in {" ", "\t", "\n"}

\* The decimal text of a natural number (how the inputs are written).
RECURSIVE Str(_)
Str(n) == IF n < 10 THEN <<DigitChars[n + 1]>>
          ELSE Str(n \div 10) \o <<DigitChars[(n % 10) + 1]>>

RECURSIVE DigitsValue(_)
DigitsValue(s) ==
    IF s = <<>> THEN 0
    ELSE DigitsValue(SubSeq(s, 1, Len(s) - 1)) * 10 + DigitVal(s[Len(s)])

RECURSIVE StripZeros(_)
StripZeros(s) == IF s # <<>> /\ s[1] = "0" THEN StripZeros(Tail(s)) ELSE s

ParseOk(n) == [ok |-> TRUE, v |-> n, err |-> "none"]
ParseFail(e) == [ok |-> FALSE, v |-> 0, err |-> e]

\* str::parse::<u64>(): an optional "+", then decimal digits only; no sign
\* alone, no "-", no whitespace.  A text of more than 20 significant digits is
\* above u64::MAX; the inputs of the model have at most 9 or more than 20.
parse_u64(s) ==
    IF s = <<>> THEN ParseFail("Empty")
    ELSE LET digits == IF s[1] = "+" THEN Tail(s) ELSE s
         IN IF digits = <<>> THEN ParseFail("InvalidDigit")
            ELSE IF \E i \in DOMAIN digits : ~IsDigit(digits[i])
            THEN ParseFail("InvalidDigit")
            ELSE IF Len(StripZeros(digits)) > 20 THEN ParseFail("PosOverflow")
            ELSE ParseOk(DigitsValue(digits))

\* str::parse::<i64>(): as parse::<u64>() with an optional "-" as well.  A text
\* of more than 19 significant digits is outside i64.
parse_i64(s) ==
    IF s = <<>> THEN ParseFail("Empty")
    ELSE LET neg == s[1] = "-"
             digits == IF s[1] \in {"+", "-"} THEN Tail(s) ELSE s
         IN IF digits = <<>> THEN ParseFail("InvalidDigit")
            ELSE IF \E i \in DOMAIN digits : ~IsDigit(digits[i])
            THEN ParseFail("InvalidDigit")
            ELSE IF Len(StripZeros(digits)) > 19
            THEN ParseFail(IF neg THEN "NegOverflow" ELSE "PosOverflow")
            ELSE ParseOk(IF neg THEN 0 - DigitsValue(digits) ELSE DigitsValue(digits))

\* The first position from i on whose character satisfies / does not satisfy
\* whitespace; Len(s) + 1 when there is none.
RECURSIVE SkipWhile(_, _, _)
SkipWhile(s, i, ws) ==
    IF i > Len(s) \/ IsWhitespace(s[i]) # ws THEN i ELSE SkipWhile(s, i + 1, ws)

\* str::split_whitespace(): the maximal runs of non-whitespace characters.
RECURSIVE split_whitespace(_)
split_whitespace(s) ==
    LET b == SkipWhile(s, 1, TRUE)
        e == SkipWhile(s, b, FALSE)
    IN IF b > Len(s) THEN <<>>
       ELSE <<SubSeq(s, b, e - 1)>> \o split_whitespace(SubSeq(s, e, Len(s)))

\* str::trim(): without the leading and the trailing whitespace.
RECURSIVE trim_end(_)
trim_end(s) ==
    IF s # <<>> /\ IsWhitespace(s[Len(s)]) THEN trim_end(SubSeq(s, 1, Len(s) - 1)) ELSE s
trim(s) == trim_end(SubSeq(s, SkipWhile(s, 1, TRUE), Len(s)))

\* str::split(sep): the pieces between the separators, empty ones included.
RECURSIVE split_char(_, _)
split_char(s, sep) ==
    IF \A i \in DOMAIN s : s[i] # sep THEN <<s>>
    ELSE LET k == Min({i \in DOMAIN s : s[i] = sep})
         IN <<SubSeq(s, 1, k - 1)>> \o split_char(SubSeq(s, k + 1, Len(s)), sep)

(***************************************************************************)
(* Unified::apply                                                          *)
(***************************************************************************)
\* The property names (cpu.rs, cpuset.rs, memory.rs, pids.rs).
CPU_WEIGHT == "CPUWeight"
CPU_QUOTA == "CPUQuotaPerSecUSec"
CPU_PERIOD == "CPUQuotaPeriodUSec"
ALLOWED_CPUS == "AllowedCPUs"
ALLOWED_NODES == "AllowedMemoryNodes"
MEMORY_MIN == "MemoryMin"
MEMORY_LOW == "MemoryLow"
MEMORY_HIGH == "MemoryHigh"
MEMORY_MAX == "MemoryMax"
TASKS_MAX == "TasksMax"

\* zvariant::Value.  U64 denotes the number v + wrap * 2^64: wrap is 1 only for
\* a negative i64 cast with "as u64".
U64(n) == [t |-> "U64", v |-> n, wrap |-> 0, bytes |-> <<>>]
U64FromI64(n) == [t |-> "U64", v |-> n, wrap |-> IF n < 0 THEN 1 ELSE 0, bytes |-> <<>>]
ArrayU8(b) == [t |-> "Array", v |-> 0, wrap |-> 0, bytes |-> b]

\* HashMap::insert
Insert(props, k, val) ==
    [x \in DOMAIN props \cup {k} |-> IF x = k THEN val ELSE props[x]]

\* Result<(), SystemdUnifiedError>
APending == [kind |-> "pending", variant |-> "none", err |-> "none", name |-> "none", value |-> <<>>]
AOk == [kind |-> "ok", variant |-> "none", err |-> "none", name |-> "none", value |-> <<>>]
AErr(variant, e, name, val) ==
    [kind |-> "err", variant |-> variant, err |-> e, name |-> name, value |-> val]

\* enum SystemdUnifiedError: what each variant holds, and the key its message
\* names.  OldSystemd and Memory hold the key; the other messages have a fixed
\* text, and CpuSetCpu (built for "cpuset.cpus" and for "cpuset.mems") reads
\* "invalid value for cpuset.cpus".
ErrorFields(variant) ==
    CASE variant \in {"CpuWeight", "CpuQuota", "CpuPeriod", "PidsMax"} -> {"err", "value"}
      [] variant = "CpuMax" -> {"value"}
      [] variant = "OldSystemd" -> {"name"}
      [] variant = "CpuSetCpu" -> {"err"}
      [] variant = "Memory" -> {"err", "name", "value"}
      [] OTHER -> {}
ErrorKey(e) ==
    CASE e.variant = "CpuWeight" -> "cpu.weight"
      [] e.variant \in {"CpuMax", "CpuQuota", "CpuPeriod"} -> "cpu.max"
      [] e.variant \in {"OldSystemd", "Memory"} -> e.name
      [] e.variant = "CpuSetCpu" -> "cpuset.cpus"
      [] e.variant = "PidsMax" -> "pids.max"
      [] OTHER -> "none"

\* What one arm of the match leaves: the property set and Ok or the error.
Step(props, ret) == [props |-> props, ret |-> ret]

\* cpu::convert_shares_to_cgroup2: shares clamped to [2, 262144], then
\* 1 + ((shares - 2) * 9999) / 262142, rounded down.  The product is taken in
\* the two factors 99 * 101 of 9999, which gives the same quotient and stays
\* within the model checker's integers.
convert_shares_to_cgroup2(shares) ==
    LET c == IF shares < 2 THEN 2 ELSE IF shares > 262144 THEN 262144 ELSE shares
        y == (c - 2) * 99
        q == y \div 262142
        r == y % 262142
    IN 1 + q * 101 + (r * 101) \div 262142

\* cpuset::to_bitmask: a list of indices and ranges "a-b" separated by commas
\* to bytes, bit i of byte j (least significant first) for index 8 * j + i, as
\* many bytes as the highest index needs.
BitmaskItem(item) ==
    LET parts == split_char(item, "-")
        a == parse_u64(parts[1])
        b == parse_u64(parts[Len(parts)])
    IN IF Len(parts) > 2 \/ ~a.ok \/ ~b.ok \/ a.v > b.v
       THEN [ok |-> FALSE, set |-> {}]
       ELSE [ok |-> TRUE, set |-> a.v..b.v]

BitmaskBytes(S) ==
    LET Bit(k) == IF k \in S THEN 1 ELSE 0
    IN [j \in 1..(Max(S) \div 8 + 1) |->
          LET b == 8 * (j - 1)
          IN Bit(b) + 2 * Bit(b + 1) + 4 * Bit(b + 2) + 8 * Bit(b + 3) + 16 * Bit(b + 4)
             + 32 * Bit(b + 5) + 64 * Bit(b + 6) + 128 * Bit(b + 7)]

to_bitmask(range) ==
    LET items == split_char(range, ",")
        parsed == [i \in DOMAIN items |-> BitmaskItem(items[i])]
    IN IF \E i \in DOMAIN parsed : ~parsed[i].ok
       THEN [ok |-> FALSE, bytes |-> <<>>, err |-> "InvalidRange"]
       ELSE [ok |-> TRUE,
             bytes |-> BitmaskBytes(UNION {parsed[i].set : i \in DOMAIN parsed}),
             err |-> "none"]

\* Mutant: the shares are stored as they are, without the conversion.
apply_cpu_weight_Unconverted(val, props) ==
    LET shares == parse_u64(val)
    IN IF ~shares.ok
       THEN Step(props, AErr("CpuWeight", shares.err, "none", val))
       ELSE Step(Insert(props, CPU_WEIGHT, U64(shares.v)), AOk)

\* Mutant: the weight is stored under the name of the quota.
apply_cpu_weight_QuotaName(val, props) ==
    LET shares == parse_u64(val)
    IN IF ~shares.ok
       THEN Step(props, AErr("CpuWeight", shares.err, "none", val))
       ELSE Step(Insert(props, CPU_QUOTA, U64(convert_shares_to_cgroup2(shares.v))), AOk)

\* "cpu.weight" => ...
apply_cpu_weight(val, props) ==
    LET shares == parse_u64(val)
    IN IF ~shares.ok
       THEN Step(props, AErr("CpuWeight", shares.err, "none", val))
       ELSE Step(Insert(props, CPU_WEIGHT, U64(convert_shares_to_cgroup2(shares.v))), AOk)

\* Mutant: a missing period is stored as 0.
apply_cpu_max_PeriodZero(val, props) ==
    LET parts == split_whitespace(val)
    IN IF parts = <<>> \/ Len(parts) > 2
       THEN Step(props, AErr("CpuMax", "none", "none", val))
       ELSE LET quota == parse_u64(parts[1])
            IN IF ~quota.ok
               THEN Step(props, AErr("CpuQuota", quota.err, "none", parts[1]))
               ELSE LET withQuota == Insert(props, CPU_QUOTA, U64(quota.v))
                        period == IF Len(parts) = 2 THEN parse_u64(parts[2]) ELSE ParseOk(0)
                    IN IF ~period.ok
                       THEN Step(withQuota, AErr("CpuPeriod", period.err, "none", parts[2]))
                       ELSE Step(Insert(withQuota, CPU_PERIOD, U64(period.v)), AOk)

\* Mutant: tokens after the second are ignored.
apply_cpu_max_ExtraIgnored(val, props) ==
    LET parts == split_whitespace(val)
    IN IF parts = <<>>
       THEN Step(props, AErr("CpuMax", "none", "none", val))
       ELSE LET quota == parse_u64(parts[1])
            IN IF ~quota.ok
               THEN Step(props, AErr("CpuQuota", quota.err, "none", parts[1]))
               ELSE LET withQuota == Insert(props, CPU_QUOTA, U64(quota.v))
                    IN IF Len(parts) >= 2
                       THEN LET period == parse_u64(parts[2])
                            IN IF ~period.ok
                               THEN Step(withQuota,
                                         AErr("CpuPeriod", period.err, "none", parts[2]))
                               ELSE Step(Insert(withQuota, CPU_PERIOD, U64(period.v)), AOk)
                       ELSE Step(withQuota, AOk)

\* "cpu.max" => ...  The quota is inserted before the period is parsed.
apply_cpu_max(val, props) ==
    LET parts == split_whitespace(val)
    IN IF parts = <<>> \/ Len(parts) > 2
       THEN Step(props, AErr("CpuMax", "none", "none", val))
       ELSE LET quota == parse_u64(parts[1])
            IN IF ~quota.ok
               THEN Step(props, AErr("CpuQuota", quota.err, "none", parts[1]))
               ELSE LET withQuota == Insert(props, CPU_QUOTA, U64(quota.v))
                    IN IF Len(parts) = 2
                       THEN LET period == parse_u64(parts[2])
                            IN IF ~period.ok
                               THEN Step(withQuota,
                                         AErr("CpuPeriod", period.err, "none", parts[2]))
                               ELSE Step(Insert(withQuota, CPU_PERIOD, U64(period.v)), AOk)
                       ELSE Step(withQuota, AOk)

\* Mutant: version 243 passes the check (< for <=).
apply_cpuset_StrictLess(cpuset, val, ver, props) ==
    IF ver < 243
    THEN Step(props, AErr("OldSystemd", "none", cpuset, <<>>))
    ELSE LET bitmask == to_bitmask(val)
         IN IF ~bitmask.ok
            THEN Step(props, AErr("CpuSetCpu", bitmask.err, "none", <<>>))
            ELSE Step(Insert(props,
                             IF cpuset = "cpuset.cpus" THEN ALLOWED_CPUS ELSE ALLOWED_NODES,
                             ArrayU8(bitmask.bytes)), AOk)

\* Mutant: the two property names are taken for each other.
apply_cpuset_SwappedNames(cpuset, val, ver, props) ==
    IF ver <= 243
    THEN Step(props, AErr("OldSystemd", "none", cpuset, <<>>))
    ELSE LET bitmask == to_bitmask(val)
         IN IF ~bitmask.ok
            THEN Step(props, AErr("CpuSetCpu", bitmask.err, "none", <<>>))
            ELSE Step(Insert(props,
                             IF cpuset = "cpuset.cpus" THEN ALLOWED_NODES ELSE ALLOWED_CPUS,
                             ArrayU8(bitmask.bytes)), AOk)

\* cpuset @ ("cpuset.cpus" | "cpuset.mems") => ...
apply_cpuset(cpuset, val, ver, props) ==
    IF ver <= 243
    THEN Step(props, AErr("OldSystemd", "none", cpuset, <<>>))
    ELSE LET bitmask == to_bitmask(val)
         IN IF ~bitmask.ok
            THEN Step(props, AErr("CpuSetCpu", bitmask.err, "none", <<>>))
            ELSE Step(Insert(props,
                             IF cpuset = "cpuset.cpus" THEN ALLOWED_CPUS ELSE ALLOWED_NODES,
                             ArrayU8(bitmask.bytes)), AOk)

\* Mutant: "memory.high" is stored as the maximum.
apply_memory_HighIsMax(memory, val, props) ==
    LET parsed == parse_u64(val)
        systemd_memory == CASE memory = "memory.min" -> MEMORY_MIN
                            [] memory = "memory.low" -> MEMORY_LOW
                            [] memory = "memory.high" -> MEMORY_MAX
                            [] memory = "memory.max" -> MEMORY_MAX
    IN IF ~parsed.ok
       THEN Step(props, AErr("Memory", parsed.err, memory, val))
       ELSE Step(Insert(props, systemd_memory, U64(parsed.v)), AOk)

\* memory @ ("memory.min" | "memory.low" | "memory.high" | "memory.max") => ...
apply_memory(memory, val, props) ==
    LET parsed == parse_u64(val)
        systemd_memory == CASE memory = "memory.min" -> MEMORY_MIN
                            [] memory = "memory.low" -> MEMORY_LOW
                            [] memory = "memory.high" -> MEMORY_HIGH
                            [] memory = "memory.max" -> MEMORY_MAX
    IN IF ~parsed.ok
       THEN Step(props, AErr("Memory", parsed.err, memory, val))
       ELSE Step(Insert(props, systemd_memory, U64(parsed.v)), AOk)

\* "pids.max" => ...  value.trim().parse::<i64>(), stored with "pids as u64".
apply_pids_max(val, props) ==
    LET pids == parse_i64(trim(val))
    IN IF ~pids.ok
       THEN Step(props, AErr("PidsMax", pids.err, "none", val))
       ELSE Step(Insert(props, TASKS_MAX, U64FromI64(pids.v)), AOk)

\* Mutant: an unknown key is stored under its own name.
apply_entry_UnknownStored(key, val, ver, props) ==
    CASE key = "cpu.weight" -> apply_cpu_weight(val, props)
      [] key = "cpu.max" -> apply_cpu_max(val, props)
      [] key \in {"cpuset.cpus", "cpuset.mems"} -> apply_cpuset(key, val, ver, props)
      [] key \in {"memory.min", "memory.low", "memory.high", "memory.max"} ->
            apply_memory(key, val, props)
      [] key = "pids.max" -> apply_pids_max(val, props)
      [] OTHER -> Step(Insert(props, key, U64(0)), AOk)

\* match key.as_str() { ... unknown => tracing::warn!(..) }
apply_entry(key, val, ver, props) ==
    CASE key = "cpu.weight" -> apply_cpu_weight(val, props)
      [] key = "cpu.max" -> apply_cpu_max(val, props)
      [] key \in {"cpuset.cpus", "cpuset.mems"} -> apply_cpuset(key, val, ver, props)
      [] key \in {"memory.min", "memory.low", "memory.high", "memory.max"} ->
            apply_memory(key, val, props)
      [] key = "pids.max" -> apply_pids_max(val, props)
      [] OTHER -> Step(props, AOk)

\* ---- The calls of Unified::apply that the model makes.
Keys == {"cpu.weight", "cpu.max", "cpuset.cpus", "cpuset.mems", "memory.min",
         "memory.low", "memory.high", "memory.max", "pids.max"}
UnknownKeys == {"io.weight", "hugetlb.2MB.max"}
CpusetKeys == {"cpuset.cpus", "cpuset.mems"}
MemoryKeys == {"memory.min", "memory.low", "memory.high", "memory.max"}
Versions == {242, 243, 244, 245}

Texts(N) == {Str(n) : n \in N}
Text21 == [i \in 1..21 |-> IF i = 1 THEN "1" ELSE "0"]
Malformed == {<<>>, <<"a">>, <<"-", "1">>, <<" ", "5">>, <<"5", " ">>, <<"1", "a">>,
              <<"+">>, Text21}

WeightNums == {0, 1, 2, 3, 1024, 22000, 100000, 262144, 262145, 999999999}
QuotaNums == {0, 500000}
PeriodNums == {1, 250000}
Seps == {<<" ">>, <<" ", " ">>, <<"\t">>}
MemoryNums == {0, 100000, 200000, 300000, 400000}
PidsNums == {0, 100}
NegativeTexts == {<<"-", "1">>, <<" ", "-", "5", "\n">>}
NotIntegers == {<<>>, <<" ">>, <<"m", "a", "x">>, <<"1", " ", "0">>, <<"1", ".", "5">>}

\* Values of "cpu.max" without a token and with more than two tokens.
CpuMaxNoTokens == {<<>>, <<" ">>, <<" ", "\t">>, <<"\n">>}
CpuMaxManyTokens == {<<"1", " ", "2", " ", "3">>, <<"1", "\t", "2", " ", " ", "3", " ">>,
                     <<"m", "a", "x", " ", "1", " ", "2">>,
                     <<"1", " ", "2", " ", "3", " ", "4">>}

CpuMaxTexts ==
    {Str(q) \o sep \o Str(p) : q \in QuotaNums, p \in PeriodNums, sep \in Seps}
    \cup {Str(q) : q \in QuotaNums}
    \cup {<<" ">> \o Str(q) \o <<" ">> : q \in QuotaNums}
    \cup CpuMaxNoTokens \cup CpuMaxManyTokens
    \cup {<<"m", "a", "x", " ", "1">>, <<"5", " ", "x">>, <<"x", " ", "5">>, <<"-", "1">>}

\* A cpu list as data: its items are single indices and ranges.
One(a) == [lo |-> a, hi |-> a, range |-> FALSE]
Range(a, b) == [lo |-> a, hi |-> b, range |-> TRUE]
CpuLists == {<<Range(0, 3)>>, <<One(0)>>, <<One(7)>>, <<One(8)>>,
             <<One(0), One(2), Range(5, 7)>>, <<Range(0, 3), One(7)>>,
             <<Range(4, 11)>>, <<One(15)>>, <<One(16)>>, <<One(3), One(1)>>,
             <<Range(2, 2)>>, <<Range(0, 1), Range(1, 9)>>}
FmtItem(it) == IF it.range THEN Str(it.lo) \o <<"-">> \o Str(it.hi) ELSE Str(it.lo)
RECURSIVE FmtList(_)
FmtList(L) == IF Len(L) = 1 THEN FmtItem(L[1])
              ELSE FmtItem(L[1]) \o <<",">> \o FmtList(Tail(L))
Members(L) == UNION {L[i].lo..L[i].hi : i \in DOMAIN L}
BadLists == {<<>>, <<"a">>, <<"3", "-", "1">>, <<"1", ",">>, <<"0", "-">>,
             <<"0", "-", "3", "-", "5">>, <<" ", "0">>}

FullValues(key) ==
    CASE key = "cpu.weight" -> Texts(WeightNums) \cup {<<"+", "7">>} \cup Malformed
      [] key = "cpu.max" -> CpuMaxTexts
      [] key \in CpusetKeys -> {FmtList(L) : L \in CpuLists} \cup BadLists
      [] key \in MemoryKeys -> Texts(MemoryNums) \cup Malformed
      [] key = "pids.max" ->
            Texts(PidsNums) \cup {<<" ">> \o Str(n) \o <<" ">> : n \in PidsNums}
            \cup NegativeTexts \cup NotIntegers \cup {<<"+", "5">>, Text21}
      [] OTHER -> {<<"1">>, <<"x">>}

\* One value the key accepts and one it rejects (an unknown key rejects none).
ShortValue(key, good) ==
    CASE key = "cpu.max" -> IF good THEN <<"5", " ", "6">> ELSE <<"5", " ", "x">>
      [] key \in CpusetKeys -> IF good THEN <<"0", "-", "3">> ELSE <<"3", "-", "1">>
      [] OTHER -> IF good THEN <<"7">> ELSE <<"x">>

SingleEntryMaps ==
    UNION {{[k \in {key} |-> val] : val \in FullValues(key)} : key \in Keys \cup UnknownKeys}

MultiEntryMaps ==
    UNION {{[k \in K |-> ShortValue(k, c[k])] : c \in [K -> BOOLEAN]} :
              K \in {K \in SUBSET (Keys \cup UnknownKeys) :
                        Cardinality(K) >= 2 /\ Cardinality(K) <= MaxEntries}}

\* Maps of two entries in which "cpu.max" has too many tokens and the other
\* entry is acceptable.
ManyTokensMaps ==
    {[k \in {"cpu.max", other} |->
         IF k = "cpu.max" THEN <<"1", " ", "2", " ", "3">> ELSE ShortValue(k, TRUE)] :
       other \in (Keys \cup UnknownKeys) \ {"cpu.max"}}

\* The property set the caller hands in: empty, or what the typed controllers
\* have stored before.
NoProperties == [x \in {} |-> U64(0)]
Preset == [x \in {CPU_WEIGHT, CPU_PERIOD, ALLOWED_NODES} |->
             CASE x = CPU_WEIGHT -> U64(100)
               [] x = CPU_PERIOD -> U64(100000)
               [] x = ALLOWED_NODES -> ArrayU8(<<1>>)]

CallApply ==
    /\ op = "idle"
    /\ \E m \in SingleEntryMaps \cup MultiEntryMaps \cup ManyTokensMaps :
         unified' = m /\ todo' = DOMAIN m
    /\ \E ver \in Versions : systemd_version' = ver
    /\ \E p \in {NoProperties, Preset} : properties' = p /\ properties0' = p
    /\ op' = "apply"
    /\ pc' = "loop"
    /\ UNCHANGED <<cur, applied, notapply>>

\* Mutant: an error restores the property set the caller handed in.
ApplyEntry_RollBack ==
    /\ op = "apply" /\ pc = "loop"
    /\ \E key \in todo :
         LET r == apply_entry(key, unified[key], systemd_version, properties)
         IN /\ cur' = key
            /\ IF r.ret.kind = "ok"
               THEN /\ properties' = r.props
                    /\ todo' = todo \ {key} /\ UNCHANGED <<pc, applied>>
               ELSE /\ properties' = properties0
                    /\ todo' = todo /\ pc' = "ret" /\ applied' = r.ret
    /\ UNCHANGED <<op, unified, systemd_version, properties0, notapply>>

\* for (key, value) in unified { match ... }: one entry, in the order the hash
\* map yields them; an error returns at once.
ApplyEntry ==
    /\ op = "apply" /\ pc = "loop"
    /\ \E key \in todo :
         LET r == apply_entry(key, unified[key], systemd_version, properties)
         IN /\ cur' = key
            /\ properties' = r.props
            /\ IF r.ret.kind = "ok"
               THEN todo' = todo \ {key} /\ UNCHANGED <<pc, applied>>
               ELSE todo' = todo /\ pc' = "ret" /\ applied' = r.ret
    /\ UNCHANGED <<op, unified, systemd_version, properties0, notapply>>

\* Ok(())
ApplyReturn ==
    /\ op = "apply" /\ pc = "loop"
    /\ todo = {}
    /\ pc' = "ret"
    /\ applied' = AOk
    /\ UNCHANGED <<op, unified, systemd_version, properties, properties0, todo, cur,
                   notapply>>

(***************************************************************************)
(* MountOption::from_str, MountRecursive::from_str, MountAttr::all        *)
(***************************************************************************)
\* Flags used in mount_setattr(2).
MOUNT_ATTR__ATIME == 112
MOUNT_ATTR_RDONLY == 1
MOUNT_ATTR_NOSUID == 2
MOUNT_ATTR_NODEV == 4
MOUNT_ATTR_NOEXEC == 8
MOUNT_ATTR_RELATIME == 0
MOUNT_ATTR_NOATIME == 16
MOUNT_ATTR_STRICTATIME == 32
MOUNT_ATTR_NODIRATIME == 128
MOUNT_ATTR_NOSYMFOLLOW == 2097152

\* The bits of a u64 that the attributes use, and the bitwise or.
BitPositions == 0..21
Bits(n) == {i \in BitPositions : (n \div (2 ^ i)) % 2 = 1}
RECURSIVE FromBits(_)
FromBits(S) == IF S = {} THEN 0 ELSE LET i == Max(S) IN 2 ^ i + FromBits(S \ {i})
BitOr(a, b) == FromBits(Bits(a) \cup Bits(b))
RECURSIVE BitOrAll(_)
BitOrAll(s) == IF s = <<>> THEN 0 ELSE BitOr(s[1], BitOrAll(Tail(s)))

\* Result<MountOption, String> and Result<MountRecursive, SyscallError>.  An
\* MsFlags value is the set of the flags it holds, each flag being one bit of
\* its own.
PPending == [kind |-> "pending", variant |-> "none", bool |-> FALSE, ms |-> {}, bits |-> 0,
             payload |-> ""]
POk(variant, b, ms, bits) ==
    [kind |-> "ok", variant |-> variant, bool |-> b, ms |-> ms, bits |-> bits, payload |-> ""]
PErr(variant, payload) ==
    [kind |-> "err", variant |-> variant, bool |-> FALSE, ms |-> {}, bits |-> 0,
     payload |-> payload]

\* MountOption::known_options()
known_options ==
    <<"defaults", "ro", "rw", "suid", "nosuid", "dev", "nodev", "exec", "noexec", "sync",
      "async", "dirsync", "remount", "mand", "nomand", "atime", "noatime", "diratime",
      "nodiratime", "bind", "rbind", "unbindable", "runbindable", "private", "rprivate",
      "shared", "rshared", "slave", "rslave", "relatime", "norelatime", "strictatime",
      "nostrictatime">>

\* The arms of the match of MountOption::from_str: token, variant, bool, flags.
MountOptionArms ==
    <<<<"defaults", "Defaults", FALSE, {}>>,
      <<"ro", "Ro", FALSE, {"MS_RDONLY"}>>,
      <<"rw", "Rw", TRUE, {"MS_RDONLY"}>>,
      <<"suid", "Suid", TRUE, {"MS_NOSUID"}>>,
      <<"nosuid", "Nosuid", FALSE, {"MS_NOSUID"}>>,
      <<"dev", "Dev", TRUE, {"MS_NODEV"}>>,
      <<"nodev", "Nodev", FALSE, {"MS_NODEV"}>>,
      <<"exec", "Exec", TRUE, {"MS_NOEXEC"}>>,
      <<"noexec", "Noexec", FALSE, {"MS_NOEXEC"}>>,
      <<"sync", "Sync", FALSE, {"MS_SYNCHRONOUS"}>>,
      <<"async", "Async", TRUE, {"MS_SYNCHRONOUS"}>>,
      <<"dirsync", "Dirsync", FALSE, {"MS_DIRSYNC"}>>,
      <<"remount", "Remount", FALSE, {"MS_REMOUNT"}>>,
      <<"mand", "Mand", FALSE, {"MS_MANDLOCK"}>>,
      <<"nomand", "Nomand", TRUE, {"MS_MANDLOCK"}>>,
      <<"atime", "Atime", TRUE, {"MS_NOATIME"}>>,
      <<"noatime", "Noatime", FALSE, {"MS_NOATIME"}>>,
      <<"diratime", "Diratime", TRUE, {"MS_NODIRATIME"}>>,
      <<"nodiratime", "Nodiratime", FALSE, {"MS_NODIRATIME"}>>,
      <<"bind", "Bind", FALSE, {"MS_BIND"}>>,
      <<"rbind", "Rbind", FALSE, {"MS_BIND", "MS_REC"}>>,
      <<"unbindable", "Unbindable", FALSE, {"MS_UNBINDABLE"}>>,
      <<"runbindable", "Runbindable", FALSE, {"MS_UNBINDABLE", "MS_REC"}>>,
      <<"private", "Private", TRUE, {"MS_PRIVATE"}>>,
      <<"rprivate", "Rprivate", TRUE, {"MS_PRIVATE", "MS_REC"}>>,
      <<"shared", "Shared", TRUE, {"MS_SHARED"}>>,
      <<"rshared", "Rshared", TRUE, {"MS_SHARED", "MS_REC"}>>,
      <<"slave", "Slave", TRUE, {"MS_SLAVE"}>>,
      <<"rslave", "Rslave", TRUE, {"MS_SLAVE", "MS_REC"}>>,
      <<"relatime", "Relatime", FALSE, {"MS_RELATIME"}>>,
      <<"norelatime", "Norelatime", TRUE, {"MS_RELATIME"}>>,
      <<"strictatime", "Strictatime", FALSE, {"MS_STRICTATIME"}>>,
      <<"nostrictatime", "Nostrictatime", TRUE, {"MS_STRICTATIME"}>>>>

\* The arms of the match of MountRecursive::from_str: token, variant, bool,
\* attribute.
MountRecursiveArms ==
    <<<<"rro", "Rdonly", FALSE, MOUNT_ATTR_RDONLY>>,
      <<"rrw", "Rdonly", TRUE, MOUNT_ATTR_RDONLY>>,
      <<"rnosuid", "Nosuid", FALSE, MOUNT_ATTR_NOSUID>>,
      <<"rsuid", "Nosuid", TRUE, MOUNT_ATTR_NOSUID>>,
      <<"rnodev", "Nodev", FALSE, MOUNT_ATTR_NODEV>>,
      <<"rdev", "Nodev", TRUE, MOUNT_ATTR_NODEV>>,
      <<"rnoexec", "Noexec", FALSE, MOUNT_ATTR_NOEXEC>>,
      <<"rexec", "Noexec", TRUE, MOUNT_ATTR_NOEXEC>>,
      <<"rnodiratime", "NoDiratime", FALSE, MOUNT_ATTR_NODIRATIME>>,
      <<"rdiratime", "NoDiratime", TRUE, MOUNT_ATTR_NODIRATIME>>,
      <<"rrelatime", "Relatime", FALSE, MOUNT_ATTR_RELATIME>>,
      <<"rnorelatime", "Relatime", TRUE, MOUNT_ATTR_RELATIME>>,
      <<"rnoatime", "Noatime", FALSE, MOUNT_ATTR_NOATIME>>,
      <<"ratime", "Noatime", TRUE, MOUNT_ATTR_NOATIME>>,
      <<"rstrictatime", "StrictAtime", FALSE, MOUNT_ATTR_STRICTATIME>>,
      <<"rnostrictatime", "StrictAtime", TRUE, MOUNT_ATTR_STRICTATIME>>,
      <<"rnosymfollow", "Nosymfollow", FALSE, MOUNT_ATTR_NOSYMFOLLOW>>,
      <<"rsymfollow", "Nosymfollow", TRUE, MOUNT_ATTR_NOSYMFOLLOW>>>>

\* The first arm of a match that has the token, 0 when none has.
Arm(arms, option) ==
    IF \E i \in DOMAIN arms : arms[i][1] = option
    THEN Min({i \in DOMAIN arms : arms[i][1] = option})
    ELSE 0

\* Mutant: the arm of "nostrictatime" is missing.
MountOption_from_str_ArmMissing(option) ==
    LET i == Arm(MountOptionArms, option)
    IN IF i = 0 \/ option = "nostrictatime" THEN PErr("String", option)
       ELSE POk(MountOptionArms[i][2], MountOptionArms[i][3], MountOptionArms[i][4], 0)

\* Mutant: the recursive forms lose MS_REC.
MountOption_from_str_NoRec(option) ==
    LET i == Arm(MountOptionArms, option)
    IN IF i = 0 THEN PErr("String", option)
       ELSE POk(MountOptionArms[i][2], MountOptionArms[i][3],
                MountOptionArms[i][4] \ {"MS_REC"}, 0)

\* impl FromStr for MountOption
MountOption_from_str(option) ==
    LET i == Arm(MountOptionArms, option)
    IN IF i = 0 THEN PErr("String", option)
       ELSE POk(MountOptionArms[i][2], MountOptionArms[i][3], MountOptionArms[i][4], 0)

\* Mutant: a token without an arm is taken for "rro".
MountRecursive_from_str_Lenient(option) ==
    LET i == Arm(MountRecursiveArms, option)
    IN IF i = 0 THEN POk("Rdonly", FALSE, {}, MOUNT_ATTR_RDONLY)
       ELSE POk(MountRecursiveArms[i][2], MountRecursiveArms[i][3], {},
                MountRecursiveArms[i][4])

\* Mutant: "ratime" clears the strict-atime attribute.
MountRecursive_from_str_Ratime(option) ==
    LET i == Arm(MountRecursiveArms, option)
    IN IF i = 0 THEN PErr("UnexpectedMountRecursiveOption", option)
       ELSE IF option = "ratime" THEN POk("Noatime", TRUE, {}, MOUNT_ATTR_STRICTATIME)
       ELSE POk(MountRecursiveArms[i][2], MountRecursiveArms[i][3], {},
                MountRecursiveArms[i][4])

\* impl FromStr for MountRecursive
MountRecursive_from_str(option) ==
    LET i == Arm(MountRecursiveArms, option)
    IN IF i = 0 THEN PErr("UnexpectedMountRecursiveOption", option)
       ELSE POk(MountRecursiveArms[i][2], MountRecursiveArms[i][3], {},
                MountRecursiveArms[i][4])

\* struct MountAttr
NoAttr == [attr_set |-> 0, attr_clr |-> 0, propagation |-> 0, userns_fd |-> 0]

\* Mutant: the atime policies are left out of attr_set.
MountAttr_all_NoAtimeSet ==
    [attr_set |-> BitOrAll(<<MOUNT_ATTR_RDONLY, MOUNT_ATTR_NOSUID, MOUNT_ATTR_NODEV,
                             MOUNT_ATTR_NOEXEC, MOUNT_ATTR_NODIRATIME,
                             MOUNT_ATTR_NOSYMFOLLOW>>),
     attr_clr |-> BitOrAll(<<MOUNT_ATTR_RDONLY, MOUNT_ATTR_NOSUID, MOUNT_ATTR_NODEV,
                             MOUNT_ATTR_NOEXEC, MOUNT_ATTR_NODIRATIME, MOUNT_ATTR_RELATIME,
                             MOUNT_ATTR_NOATIME, MOUNT_ATTR_STRICTATIME,
                             MOUNT_ATTR_NOSYMFOLLOW, MOUNT_ATTR__ATIME>>),
     propagation |-> 0,
     userns_fd |-> 0]

\* MountAttr::all()
MountAttr_all ==
    [attr_set |-> BitOrAll(<<MOUNT_ATTR_RDONLY, MOUNT_ATTR_NOSUID, MOUNT_ATTR_NODEV,
                             MOUNT_ATTR_NOEXEC, MOUNT_ATTR_NODIRATIME, MOUNT_ATTR_RELATIME,
                             MOUNT_ATTR_NOATIME, MOUNT_ATTR_STRICTATIME,
                             MOUNT_ATTR_NOSYMFOLLOW>>),
     attr_clr |-> BitOrAll(<<MOUNT_ATTR_RDONLY, MOUNT_ATTR_NOSUID, MOUNT_ATTR_NODEV,
                             MOUNT_ATTR_NOEXEC, MOUNT_ATTR_NODIRATIME, MOUNT_ATTR_RELATIME,
                             MOUNT_ATTR_NOATIME, MOUNT_ATTR_STRICTATIME,
                             MOUNT_ATTR_NOSYMFOLLOW, MOUNT_ATTR__ATIME>>),
     propagation |-> 0,
     userns_fd |-> 0]

\* ---- The tokens the parsers are called with.
Tokens(arms) == {arms[i][1] : i \in DOMAIN arms}
KnownOptions == {known_options[i] : i \in DOMAIN known_options}
OtherTokens == {"", "RO", "ro ", " ro", "ro,nosuid", "default", "nosymfollow", "idmap",
                "ridmap", "rRO", "rro ", "rro,rnosuid", "r"}
AllTokens == KnownOptions \cup Tokens(MountOptionArms) \cup Tokens(MountRecursiveArms)
             \cup OtherTokens

CallMountOptionFromStr ==
    /\ op = "idle"
    /\ \E o \in AllTokens : token' = o
    /\ op' = "MountOption::from_str"
    /\ pc' = "match"
    /\ UNCHANGED <<parsed_option, attr, notmount>>

MountOptionFromStr ==
    /\ op = "MountOption::from_str" /\ pc = "match"
    /\ parsed_option' = MountOption_from_str(token)
    /\ pc' = "ret"
    /\ UNCHANGED <<op, token, attr, notmount>>

CallMountRecursiveFromStr ==
    /\ op = "idle"
    /\ \E o \in AllTokens : token' = o
    /\ op' = "MountRecursive::from_str"
    /\ pc' = "match"
    /\ UNCHANGED <<parsed_option, attr, notmount>>

MountRecursiveFromStr ==
    /\ op = "MountRecursive::from_str" /\ pc = "match"
    /\ parsed_option' = MountRecursive_from_str(token)
    /\ pc' = "ret"
    /\ UNCHANGED <<op, token, attr, notmount>>

CallMountAttrAll ==
    /\ op = "idle"
    /\ op' = "MountAttr::all"
    /\ pc' = "build"
    /\ UNCHANGED <<token, parsed_option, attr, notmount>>

MountAttrAll ==
    /\ op = "MountAttr::all" /\ pc = "build"
    /\ attr' = MountAttr_all
    /\ pc' = "ret"
    /\ UNCHANGED <<op, token, parsed_option, notmount>>

(***************************************************************************)
(* The systemd client (zbus/client.rs).  Every operation sends one method  *)
(* call over the connection; the answer of the bus is an input.            *)
(***************************************************************************)
\* zvariant::Value of the kinds the client uses, in the shape of U64 above.
VStr(s) == [t |-> "Str", v |-> 0, wrap |-> 0, bytes |-> s]
VBool(b) == [t |-> "Bool", v |-> IF b THEN 1 ELSE 0, wrap |-> 0, bytes |-> <<>>]
VU32(n) == [t |-> "U32", v |-> n, wrap |-> 0, bytes |-> <<>>]
VArrayU32(s) == [t |-> "Array", v |-> 0, wrap |-> 0, bytes |-> s]

\* What a client operation returns: a value, or a SystemdClientError.
CPending == [kind |-> "pending", variant |-> "none", err |-> "none", unit_name |-> <<>>,
             parent |-> <<>>, value |-> VBool(FALSE)]
COk(val) == [kind |-> "ok", variant |-> "none", err |-> "none", unit_name |-> <<>>,
             parent |-> <<>>, value |-> val]
CErr(variant, e, unit, par) ==
    [kind |-> "err", variant |-> variant, err |-> e, unit_name |-> unit, parent |-> par,
     value |-> VBool(FALSE)]

\* zbus::Error as the bus or the connection reports it.
ZbusErrors == {"MethodError", "InputOutput", "NoReply"}

\* str::ends_with
ends_with(s, suffix) ==
    Len(s) >= Len(suffix) /\ SubSeq(s, Len(s) - Len(suffix) + 1, Len(s)) = suffix

\* char::is_alphabetic and char::is_numeric.  Both go by the Unicode classes:
\* "U+00E9" stands for a letter and "U+00B2" for a numeric character that are
\* not ASCII.
InClass(c, class) ==
    IF class = "alphabetic"
    THEN c \in {"a", "b", "c", "d", "e", "m", "r", "s", "t", "v", "y", "V", "U+00E9"}
    ELSE IsDigit(c) \/ c = "U+00B2"

\* The position from i on of the first character that is not in the class.
RECURSIVE SkipClass(_, _, _)
SkipClass(s, i, class) ==
    IF i > Len(s) \/ ~InClass(s[i], class) THEN i ELSE SkipClass(s, i + 1, class)

\* Mutant: the leading alphabetic characters are not skipped.
numeric_prefix_NoSkip(s) == SubSeq(s, 1, SkipClass(s, 1, "numeric") - 1)

\* chars().skip_while(is_alphabetic).take_while(is_numeric).collect::<String>()
numeric_prefix(s) ==
    LET b == SkipClass(s, 1, "alphabetic")
        e == SkipClass(s, b, "numeric")
    IN SubSeq(s, b, e - 1)

\* str::parse::<u32>(): as parse::<u64>() with the bound 4294967295.  The
\* inputs of the model have at most 9 significant digits or are above the
\* bound.
RECURSIVE DigitsAbove(_, _)
DigitsAbove(s, limit) ==
    IF s = <<>> THEN FALSE
    ELSE IF DigitVal(s[1]) # limit[1] THEN DigitVal(s[1]) > limit[1]
    ELSE DigitsAbove(Tail(s), Tail(limit))
parse_u32(s) ==
    IF s = <<>> THEN ParseFail("Empty")
    ELSE LET digits == IF s[1] = "+" THEN Tail(s) ELSE s
         IN IF digits = <<>> THEN ParseFail("InvalidDigit")
            ELSE IF \E i \in DOMAIN digits : ~IsDigit(digits[i])
            THEN ParseFail("InvalidDigit")
            ELSE IF Len(StripZeros(digits)) > 10
                    \/ (Len(StripZeros(digits)) = 10 /\ DigitsAbove(StripZeros(digits), <<4, 2, 9, 4, 9, 6, 7, 2, 9, 5>>))
            THEN ParseFail("PosOverflow")
            ELSE ParseOk(DigitsValue(digits))

\* Mutant: the parent is always given as Slice=, for a slice as well.
start_properties_AlwaysSlice(container_name, pid, parent, unit_name) ==
    <<<<"Description", VStr(<<"y", "o", "u", "k", "i", " ", "c", "o", "n", "t", "a", "i", "n", "e",
                              "r", " ">> \o container_name)>>,
      <<"Slice", VStr(parent)>>, <<"Delegate", VBool(TRUE)>>,
      <<"MemoryAccounting", VBool(TRUE)>>, <<"CPUAccounting", VBool(TRUE)>>,
      <<"IOAccounting", VBool(TRUE)>>, <<"TasksAccounting", VBool(TRUE)>>,
      <<"DefaultDependencies", VBool(FALSE)>>, <<"PIDs", VArrayU32(<<pid>>)>>>>

\* The property list start_transient_unit builds; the description is
\* format!("youki container {container_name}").
start_properties(container_name, pid, parent, unit_name) ==
    <<<<"Description", VStr(<<"y", "o", "u", "k", "i", " ", "c", "o", "n", "t", "a", "i", "n", "e",
                              "r", " ">> \o container_name)>>>>
    \o (IF ends_with(unit_name, <<"s", "l", "i", "c", "e">>)
        THEN <<<<"Wants", VStr(parent)>>>>
        ELSE <<<<"Slice", VStr(parent)>>, <<"Delegate", VBool(TRUE)>>>>)
    \o <<<<"MemoryAccounting", VBool(TRUE)>>, <<"CPUAccounting", VBool(TRUE)>>,
         <<"IOAccounting", VBool(TRUE)>>, <<"TasksAccounting", VBool(TRUE)>>,
         <<"DefaultDependencies", VBool(FALSE)>>, <<"PIDs", VArrayU32(<<pid>>)>>>>

\* ---- The calls of the client that the model makes.
ClientOps == {"transient_unit_exists", "start_transient_unit", "stop_transient_unit",
              "set_unit_properties", "systemd_version", "control_cgroup_root"}
UnitNames == {<<"a", ".", "s", "c", "o", "p", "e">>, <<"b", ".", "s", "l", "i", "c", "e">>,
              <<"s", "l", "i", "c", "e">>, <<"s", "l", "i", "c", "e", "s">>,
              <<"a", "s", "l", "i", "c", "e">>, <<"x">>, <<>>}
ClientArgs ==
    [container_name : {<<"c", "1">>, <<>>}, pid : {1, 4242},
     parent : {<<"p", ".", "s", "l", "i", "c", "e">>, <<>>}, unit_name : UnitNames,
     properties : {NoProperties, Preset}]

\* What the bus may report as the Version and the ControlGroup property.
VersionPrefixes == {<<>>, <<"v">>, <<"V", "U+00E9", "r">>}
VersionNums == {0, 9, 245, 252, 999999999}
VersionRests == {<<>>, <<".", "4", "-", "1">>, <<"r", "c", "1">>, <<" ">>, <<"~", "2">>}
\* Texts whose run of numeric characters after the alphabetic ones is empty,
\* is above 4294967295, or holds a numeric character that is no decimal digit.
BadVersionTexts ==
    {<<>>, <<"v">>, <<"a", "b", "c">>, <<".">> \o Str(245), <<" ">> \o Str(245),
     <<"s", "y", "s", "t", "e", "m", "d", " ">> \o Str(245), <<"+">> \o Str(245),
     <<"-", "1">>}
    \cup {<<"4", "2", "9", "4", "9", "6", "7", "2", "9", "6">>, <<"v">> \o Text21,
          <<"4", "2", "9", "4", "9", "6", "7", "2", "9", "6", ".", "1">>}
    \cup {Str(245) \o <<"U+00B2">>, <<"U+00B2">>, <<"v", "U+00B2", "4">>}
VersionTexts ==
    {l \o Str(n) \o r : l \in VersionPrefixes, n \in VersionNums, r \in VersionRests}
    \cup {<<"0">> \o Str(245)}
    \cup BadVersionTexts
Replies ==
    {VStr(t) : t \in VersionTexts \cup {<<"/">>, <<"/", "a">>}}
    \cup {VU32(245), VBool(TRUE)}

CallClient ==
    /\ op = "idle"
    /\ \E o \in ClientOps : op' = o
    /\ \E a \in ClientArgs :
         cargs' = IF op' \in {"systemd_version", "control_cgroup_root"} THEN cargs ELSE a
    /\ pc' = "call_method"
    /\ UNCHANGED <<trace, version, cresult, notclient>>

\* Mutant: an error of the request is returned as an error.
TransientUnitExists_ErrorReturned ==
    /\ op = "transient_unit_exists" /\ pc = "call_method"
    /\ \E ret \in {"ok"} \cup ZbusErrors :
         /\ trace' = Append(trace, Req("GetUnit", <<cargs.unit_name>>, ret))
         /\ cresult' = IF ret \in {"ok", "MethodError"} THEN COk(VBool(ret = "ok"))
                       ELSE CErr("DBus", ret, <<>>, <<>>)
    /\ pc' = "ret"
    /\ UNCHANGED <<op, cargs, version, notclient>>

\* self.conn.call_method(.., "GetUnit", &(unit_name,)).is_ok()
TransientUnitExists ==
    /\ op = "transient_unit_exists" /\ pc = "call_method"
    /\ \E ret \in {"ok"} \cup ZbusErrors :
         /\ trace' = Append(trace, Req("GetUnit", <<cargs.unit_name>>, ret))
         /\ cresult' = COk(VBool(ret = "ok"))
    /\ pc' = "ret"
    /\ UNCHANGED <<op, cargs, version, notclient>>

\* call_method(.., "StartTransientUnit", &(unit_name, "replace", properties, aux))
StartTransientUnit ==
    /\ op = "start_transient_unit" /\ pc = "call_method"
    /\ \E ret \in {"ok"} \cup ZbusErrors :
         /\ trace' = Append(trace,
                Req("StartTransientUnit",
                    <<cargs.unit_name, "replace",
                      start_properties(cargs.container_name, cargs.pid, cargs.parent,
                                       cargs.unit_name),
                      <<>>>>, ret))
         /\ cresult' = IF ret = "ok" THEN COk(VBool(TRUE))
                       ELSE CErr("FailedTransient", ret, cargs.unit_name, cargs.parent)
    /\ pc' = "ret"
    /\ UNCHANGED <<op, cargs, version, notclient>>

\* Mutant: a request that got no reply is sent once more.
StopTransientUnit_Retry ==
    /\ op = "stop_transient_unit" /\ pc = "call_method"
    /\ \E ret \in {"ok"} \cup ZbusErrors :
         /\ trace' = Append(trace, Req("StopUnit", <<cargs.unit_name, "replace">>, ret))
         /\ IF ret = "NoReply" /\ trace = <<>>
            THEN UNCHANGED <<pc, cresult>>
            ELSE /\ pc' = "ret"
                 /\ cresult' = IF ret = "ok" THEN COk(VBool(TRUE))
                               ELSE CErr("FailedStop", ret, cargs.unit_name, <<>>)
    /\ UNCHANGED <<op, cargs, version, notclient>>

\* call_method(.., "StopUnit", &(unit_name, "replace"))
StopTransientUnit ==
    /\ op = "stop_transient_unit" /\ pc = "call_method"
    /\ \E ret \in {"ok"} \cup ZbusErrors :
         /\ trace' = Append(trace, Req("StopUnit", <<cargs.unit_name, "replace">>, ret))
         /\ cresult' = IF ret = "ok" THEN COk(VBool(TRUE))
                       ELSE CErr("FailedStop", ret, cargs.unit_name, <<>>)
    /\ pc' = "ret"
    /\ UNCHANGED <<op, cargs, version, notclient>>

\* Mutant: the error names the parent where the unit belongs.
SetUnitProperties_WrongUnit ==
    /\ op = "set_unit_properties" /\ pc = "call_method"
    /\ \E ret \in {"ok"} \cup ZbusErrors :
         /\ trace' = Append(trace,
                Req("SetUnitProperties", <<cargs.unit_name, TRUE, cargs.properties>>, ret))
         /\ cresult' = IF ret = "ok" THEN COk(VBool(TRUE))
                       ELSE CErr("FailedProperties", ret, cargs.parent, <<>>)
    /\ pc' = "ret"
    /\ UNCHANGED <<op, cargs, version, notclient>>

\* call_method(.., "SetUnitProperties", &(unit_name, true, props))
SetUnitProperties ==
    /\ op = "set_unit_properties" /\ pc = "call_method"
    /\ \E ret \in {"ok"} \cup ZbusErrors :
         /\ trace' = Append(trace,
                Req("SetUnitProperties", <<cargs.unit_name, TRUE, cargs.properties>>, ret))
         /\ cresult' = IF ret = "ok" THEN COk(VBool(TRUE))
                       ELSE CErr("FailedProperties", ret, cargs.unit_name, <<>>)
    /\ pc' = "ret"
    /\ UNCHANGED <<op, cargs, version, notclient>>

\* call_method(.., "Get", &(Manager, "Version")).and_then(..)?: an error of the
\* call and a reply that is no string return the DBus error.
SystemdVersionGet ==
    /\ op = "systemd_version" /\ pc = "call_method"
    /\ \E ret \in {"ok"} \cup ZbusErrors, body \in Replies :
         /\ trace' = Append(trace,
                <<"Get", <<"org.freedesktop.systemd1.Manager", "Version">>, ret,
                  IF ret = "ok" THEN body ELSE VBool(FALSE)>>)
         /\ IF ret # "ok"
            THEN cresult' = CErr("DBus", ret, <<>>, <<>>) /\ pc' = "ret" /\ UNCHANGED version
            ELSE IF body.t # "Str"
            THEN /\ cresult' = CErr("DBus", "InvalidReply", <<>>, <<>>)
                 /\ pc' = "ret" /\ UNCHANGED version
            ELSE version' = body.bytes /\ pc' = "parse" /\ UNCHANGED cresult
    /\ UNCHANGED <<op, cargs, notclient>>

\* version.chars().skip_while(..).take_while(..).collect::<String>()
\*     .parse::<u32>().map_err(SystemdClientError::SystemdVersion)?
SystemdVersionParse ==
    /\ op = "systemd_version" /\ pc = "parse"
    /\ LET n == parse_u32(numeric_prefix(version))
       IN cresult' = IF n.ok THEN COk(VU32(n.v))
                     ELSE CErr("SystemdVersion", n.err, <<>>, <<>>)
    /\ pc' = "ret"
    /\ UNCHANGED <<op, cargs, version, trace, notclient>>

\* call_method(.., "Get", &(Manager, "ControlGroup")).and_then(..)?
ControlCgroupRoot ==
    /\ op = "control_cgroup_root" /\ pc = "call_method"
    /\ \E ret \in {"ok"} \cup ZbusErrors, body \in Replies :
         /\ trace' = Append(trace,
                <<"Get", <<"org.freedesktop.systemd1.Manager", "ControlGroup">>, ret,
                  IF ret = "ok" THEN body ELSE VBool(FALSE)>>)
         /\ cresult' = IF ret # "ok" THEN CErr("DBus", ret, <<>>, <<>>)
                       ELSE IF body.t # "Str" THEN CErr("DBus", "InvalidReply", <<>>, <<>>)
                       ELSE COk(body)
    /\ pc' = "ret"
    /\ UNCHANGED <<op, cargs, version, notclient>>

(***************************************************************************)
(* The specification.                                                      *)
(***************************************************************************)
Init ==
    /\ op = "idle"
    /\ pc = "idle"
    /\ result = Pending
    /\ trace = <<>>
    /\ path = "/rootfs"
    /\ newroot = "none"
    /\ mnt = Mnt0
    /\ uid = 0 /\ gid = 0
    /\ ids = Ids0 /\ ids0 = Ids0
    /\ keepcaps = FALSE /\ keepcaps0 = FALSE
    /\ preserve_fds = 0
    /\ fds = StdioOnly /\ fds0 = StdioOnly
    /\ cleanup = <<>>
    /\ cset = "Bounding" /\ value = {}
    /\ capsets = [s \in CapSetNames |-> {}]
    /\ capsets0 = [s \in CapSetNames |-> {}]
    /\ todrop = {}
    /\ unified = NoProperties
    /\ systemd_version = 245
    /\ properties = NoProperties /\ properties0 = NoProperties
    /\ todo = {}
    /\ cur = "none"
    /\ applied = APending
    /\ token = ""
    /\ parsed_option = PPending
    /\ attr = NoAttr
    /\ cargs = [container_name |-> <<>>, pid |-> 1, parent |-> <<>>, unit_name |-> <<>>,
                properties |-> NoProperties]
    /\ version = <<>>
    /\ cresult = CPending

Next ==
    \/ CallPivotRootfs
    \/ PivotRootfsOpen
    \/ PivotRootfsPivotRoot
    \/ PivotRootfsMount
    \/ PivotRootfsUmount2
    \/ PivotRootfsFchdir
    \/ PivotRootfsClose
    \/ CallSetId
    \/ SetIdKeepCapsOn
    \/ SetIdSetresgid
    \/ SetIdSetresuid
    \/ SetIdResetEffective
    \/ SetIdKeepCapsOff
    \/ CallCloseRange
    \/ CallEmulateCloseRange
    \/ CloseRangeSyscall
    \/ EmulateGetOpenFds
    \/ EmulateFcntl
    \/ EmulateReturn
    \/ CallSetCapability
    \/ SetCapabilityRead
    \/ SetCapabilityDrop
    \/ SetCapabilitySet
    \/ SetCapabilityReturn
    \/ CallApply
    \/ ApplyEntry
    \/ ApplyReturn
    \/ CallMountOptionFromStr
    \/ MountOptionFromStr
    \/ CallMountRecursiveFromStr
    \/ MountRecursiveFromStr
    \/ CallMountAttrAll
    \/ MountAttrAll
    \/ CallClient
    \/ TransientUnitExists
    \/ StartTransientUnit
    \/ StopTransientUnit
    \/ SetUnitProperties
    \/ SystemdVersionGet
    \/ SystemdVersionParse
    \/ ControlCgroupRoot

Spec == Init /\ [][Next]_vars

(***************************************************************************)
(* Properties.                                                             *)
(***************************************************************************)
Returned(o) == op = o /\ pc = "ret"

\* The requests of the trace without their answers.
Calls(t) == [i \in DOMAIN t |-> <<t[i][1], t[i][2]>>]
Answers(t) == [i \in DOMAIN t |-> t[i][3]]
IsPrefix(a, b) == Len(a) <= Len(b) /\ SubSeq(b, 1, Len(a)) = a
LastCall == IF trace = <<>> THEN "none" ELSE trace[Len(trace)][1]

PivotRootfsCalls(p) ==
    << <<"open", <<p, "O_DIRECTORY|O_RDONLY|O_CLOEXEC">> >>,
       <<"pivot_root", <<p, p>> >>,
       <<"mount", <<"/", "MS_SLAVE|MS_REC">> >>,
       <<"umount2", <<"/", "MNT_DETACH">> >>,
       <<"fchdir", <<"newroot">> >>,
       <<"close", <<"newroot">> >> >>

\* C1: a pivot_rootfs(path) that returns Ok has made exactly the requests
\* open(path), pivot_root(path, path), mount("/", MS_SLAVE|MS_REC),
\* umount2("/", MNT_DETACH), fchdir(handle), close(handle): each once, in this
\* order, each answered with success.
C1_PivotRootfsOrder ==
    (Returned("pivot_rootfs") /\ result = Ok) =>
        /\ Calls(trace) = PivotRootfsCalls(path)
        /\ \A i \in DOMAIN trace : trace[i][3] = "ok"

C1_Witness ==
    /\ Returned("pivot_rootfs") /\ result = Ok
    /\ mnt = [root |-> path, oldroot |-> "detached", cwd |-> path]
    /\ newroot = "closed"

SetIdCalls(u, g) ==
    << <<"set_keep_capabilities", <<"true">> >>,
       <<"setresgid", <<g, g, g>> >>,
       <<"setresuid", <<u, u, u>> >> >>
    \o (IF u # 0 THEN << <<"reset_effective", <<>> >> >> ELSE <<>>)
    \o << <<"set_keep_capabilities", <<"false">> >> >>

RealIsEffective(i) == i.ruid = i.euid /\ i.rgid = i.egid

\* C2: at every point of set_id(uid, gid) the requests made so far are an
\* initial part of: keep-capabilities on, setresgid(gid, gid, gid),
\* setresuid(uid, uid, uid), reset_effective (only when uid # 0),
\* keep-capabilities off; a successful run has made all of them; and when real
\* and effective ids were equal before the call they are equal after every step.
C2_SetIdOrder ==
    op = "set_id" =>
        /\ IsPrefix(Calls(trace), SetIdCalls(uid, gid))
        /\ (pc = "ret" /\ result = Ok) => Calls(trace) = SetIdCalls(uid, gid)
        /\ RealIsEffective(ids0) => RealIsEffective(ids)

C2_Witness ==
    /\ Returned("set_id") /\ result = Ok
    /\ uid # 0 /\ gid # 0
    /\ RealIsEffective(ids0) /\ ids0.euid = 0 /\ ids0.egid = 0
    /\ ids.ruid = uid /\ ids.rgid = gid
    /\ Len(trace) = 5

ErrorFromIdStep ==
    /\ result.kind = "err"
    /\ LastCall \in {"setresgid", "setresuid", "reset_effective"}

\* C3 as stated: keep-capabilities is disabled again by the time set_id
\* returns, on success and on an error from the gid change, the uid change or
\* the capability reduction alike.
C3_Original_KeepCapsOffOnEveryReturn ==
    (Returned("set_id") /\ (result = Ok \/ ErrorFromIdStep)) => keepcaps = FALSE

\* C3 amended: keep-capabilities is enabled before the group-id change, and it
\* is disabled again when set_id returns success; when set_id returns an error
\* from the gid change, the uid change or the capability reduction, the rest of
\* the sequence is skipped and the flag is still enabled.
C3_KeepCapsOffOnSuccessOnly ==
    op = "set_id" =>
        /\ (\E i \in DOMAIN trace : trace[i][1] = "setresgid") =>
               trace[1] = Req("set_keep_capabilities", <<"true">>, "ok")
        /\ (pc = "ret" /\ result = Ok) => keepcaps = FALSE
        /\ (pc = "ret" /\ ErrorFromIdStep) => keepcaps = TRUE

C3_Witness ==
    /\ Returned("set_id")
    /\ ErrorFromIdStep
    /\ LastCall = "reset_effective"
    /\ keepcaps0 = FALSE /\ keepcaps = TRUE

\* C4: in pivot_rootfs and in set_id a failed request is the last request made
\* (nothing follows it and it is not made again), the operation has returned,
\* and what it returned is that request's error; an operation that returned Ok
\* has had no failed request.
C4_FailFast ==
    op \in {"pivot_rootfs", "set_id"} =>
        /\ \A i \in DOMAIN trace :
              trace[i][3] # "ok" =>
                  /\ i = Len(trace)
                  /\ pc = "ret"
                  /\ result = Err(trace[i][3])
        /\ result = Ok => \A i \in DOMAIN trace : trace[i][3] = "ok"

C4_Witness ==
    /\ Returned("pivot_rootfs")
    /\ Len(trace) = 4
    /\ trace[4][1] = "umount2" /\ trace[4][3] = "EPERM"
    /\ result = Err("EPERM")
    /\ mnt.cwd = "host" /\ newroot = "open"

\* C5: when close_range(preserve_fds) returns Ok, by the kernel's request or by
\* the fallback, and when emulate_close_range(preserve_fds) returns Ok, the
\* descriptor table is the same function of the table before the call: every
\* open descriptor >= preserve_fds + 3 is close-on-exec, every descriptor below
\* is as it was, and the open descriptors are those that were open.
C5_CloseRangeEquivalence ==
    (op \in {"close_range", "emulate_close_range"} /\ pc = "ret" /\ result = Ok) =>
        /\ \A fd \in Fds : (fd >= preserve_fds + 3 /\ IsOpen(fds, fd)) => fds[fd] = "cloexec"
        /\ \A fd \in Fds : fd < preserve_fds + 3 => fds[fd] = fds0[fd]
        /\ \A fd \in Fds : IsOpen(fds, fd) <=> IsOpen(fds0, fd)
        /\ fds = KernelCloseRangeCloexec(fds0, preserve_fds + 3)

C5_Witness ==
    /\ Returned("close_range") /\ result = Ok
    /\ trace[1][3] = "ENOSYS"
    /\ preserve_fds = 1
    /\ fds0[3] = "open" /\ fds[3] = "open"
    /\ fds0[4] = "open" /\ fds[4] = "cloexec"
    /\ fds0[5] = "closed"
    /\ \E i \in DOMAIN trace : trace[i][1] = "fcntl" /\ trace[i][3] = "EBADF"

Drops(c) == {i \in DOMAIN trace : trace[i][1] = "caps::drop" /\ trace[i][2][2] = c}

\* C6: after set_capability(Bounding, T) returned Ok the bounding set is the
\* set read at the start intersected with T, every capability that was present
\* and is not in T was dropped by exactly one request, no other capability was
\* dropped, and the other sets are untouched; for any other set the only
\* request is one caps::set of T, and that set is T afterwards.
C6_SetCapability ==
    (Returned("set_capability") /\ result = Ok) =>
        IF cset = "Bounding"
        THEN /\ capsets["Bounding"] = capsets0["Bounding"] \cap value
             /\ \A c \in Caps :
                   Cardinality(Drops(c)) =
                       IF c \in capsets0["Bounding"] \ value THEN 1 ELSE 0
             /\ \A i \in DOMAIN trace : trace[i][1] \in {"caps::read", "caps::drop"}
             /\ \A s \in CapSetNames \ {"Bounding"} : capsets[s] = capsets0[s]
        ELSE /\ trace = <<Req("caps::set", <<cset, value>>, "ok")>>
             /\ capsets = [capsets0 EXCEPT ![cset] = value]

C6_Witness ==
    /\ Returned("set_capability") /\ result = Ok
    /\ cset = "Bounding"
    /\ Cardinality(capsets0["Bounding"] \ value) >= 2
    /\ capsets["Bounding"] # {}
    /\ value \ capsets0["Bounding"] # {}

\* An entry of the map that the loop has visited without an error.
Visited(k) == op = "apply" /\ k \in DOMAIN unified /\ k \notin todo

Has(props, name, val) == name \in DOMAIN props /\ props[name] = val
SameEntry(name) ==
    /\ name \in DOMAIN properties <=> name \in DOMAIN properties0
    /\ name \in DOMAIN properties => properties[name] = properties0[name]

\* The weight the claim gives for the shares n.  At the upper end of the clamp
\* the quotient is exactly 9999.
ClaimedWeight(n) ==
    LET c == IF n < 2 THEN 2 ELSE IF n > 262144 THEN 262144 ELSE n
    IN IF c = 262144 THEN 10000 ELSE 1 + ((c - 2) * 9999) \div 262142

\* C7: once the "cpu.weight" entry with the decimal text of n (with or without
\* a leading "+") has been visited, the CPU-weight property is
\* 1 + ((clamp(n, 2, 262144) - 2) * 9999) div 262142, whatever else the call was
\* given; for 22000 it is 840.
C7_CpuWeight ==
    Visited("cpu.weight") =>
        /\ \A n \in WeightNums \cup {7} :
              unified["cpu.weight"] \in {Str(n), <<"+">> \o Str(n)} =>
                  Has(properties, CPU_WEIGHT, U64(ClaimedWeight(n)))
        /\ unified["cpu.weight"] = <<"2", "2", "0", "0", "0">> =>
              Has(properties, CPU_WEIGHT, U64(840))

C7_Witness ==
    /\ Returned("apply") /\ applied = AOk
    /\ Visited("cpu.weight")
    /\ unified["cpu.weight"] = Str(22000)
    /\ properties0 = Preset
    /\ properties[CPU_WEIGHT] = U64(840)

BitOf(bytes, i) == (bytes[i \div 8 + 1] \div (2 ^ (i % 8))) % 2
IsBitmaskOf(bytes, S) ==
    /\ Len(bytes) = Max(S) \div 8 + 1
    /\ \A j \in DOMAIN bytes : bytes[j] \in 0..255
    /\ \A i \in 0..(8 * Len(bytes) - 1) : BitOf(bytes, i) = 1 <=> i \in S
CpusetProperty(k) == IF k = "cpuset.cpus" THEN ALLOWED_CPUS ELSE ALLOWED_NODES

\* C8: with systemd_version > 243, once a "cpuset.cpus" or "cpuset.mems" entry
\* holding the text of a list of indices and ranges has been visited, the
\* allowed-CPUs property (for cpuset.cpus) or the allowed-nodes property (for
\* cpuset.mems) is a byte array in which bit i, least significant first in
\* each byte, is set exactly when i is in the list, and which has as many bytes
\* as the highest index needs; "0-3" gives the one byte 15.
C8_CpusetBitmask ==
    \A k \in CpusetKeys :
        (Visited(k) /\ systemd_version > 243) =>
            /\ \A L \in CpuLists :
                  unified[k] = FmtList(L) =>
                      /\ CpusetProperty(k) \in DOMAIN properties
                      /\ properties[CpusetProperty(k)].t = "Array"
                      /\ IsBitmaskOf(properties[CpusetProperty(k)].bytes, Members(L))
            /\ unified[k] = <<"0", "-", "3">> =>
                  Has(properties, CpusetProperty(k), ArrayU8(<<15>>))

C8_Witness ==
    /\ Returned("apply") /\ applied = AOk
    /\ Visited("cpuset.cpus")
    /\ unified["cpuset.cpus"] = FmtList(<<One(0), One(2), Range(5, 7)>>)
    /\ properties0 = NoProperties
    /\ properties = [x \in {ALLOWED_CPUS} |-> ArrayU8(<<229>>)]

\* C9: with systemd_version <= 243 the visit of a "cpuset.cpus" or
\* "cpuset.mems" entry, whatever its value, makes apply return
\* OldSystemd(that key) at once; no call whose map holds such an entry returns
\* Ok, and the allowed-CPUs and allowed-nodes properties stay as they were
\* before the call.  With systemd_version > 243 apply never returns OldSystemd.
C9_OldSystemd ==
    op = "apply" =>
        /\ systemd_version <= 243 =>
              /\ cur \in CpusetKeys =>
                    pc = "ret" /\ applied = AErr("OldSystemd", "none", cur, <<>>)
              /\ \A k \in CpusetKeys : ~Visited(k)
              /\ (\E k \in CpusetKeys : k \in DOMAIN unified) => applied.kind # "ok"
              /\ SameEntry(ALLOWED_CPUS) /\ SameEntry(ALLOWED_NODES)
        /\ systemd_version > 243 => applied.variant # "OldSystemd"

C9_Witness ==
    /\ Returned("apply")
    /\ systemd_version = 243
    /\ cur = "cpuset.mems"
    /\ unified["cpuset.mems"] = <<"3", "-", "1">>
    /\ Cardinality(DOMAIN unified) = 2
    /\ applied = AErr("OldSystemd", "none", "cpuset.mems", <<>>)

\* C10: once a "cpu.max" entry has been visited: if its text is the decimal
\* texts of q and p separated by whitespace, the quota property is q and the
\* period property is p; if it is the decimal text of q alone (whitespace
\* around it or not), the quota property is q and the period property is what
\* it was before the call, absent if it was absent.
C10_CpuMax ==
    Visited("cpu.max") =>
        /\ \A q \in QuotaNums \cup {5}, p \in PeriodNums \cup {6}, sep \in Seps :
              unified["cpu.max"] = Str(q) \o sep \o Str(p) =>
                  /\ Has(properties, CPU_QUOTA, U64(q))
                  /\ Has(properties, CPU_PERIOD, U64(p))
        /\ \A q \in QuotaNums :
              unified["cpu.max"] \in {Str(q), <<" ">> \o Str(q) \o <<" ">>} =>
                  /\ Has(properties, CPU_QUOTA, U64(q))
                  /\ SameEntry(CPU_PERIOD)

C10_Witness ==
    /\ Returned("apply") /\ applied = AOk
    /\ unified = [k \in {"cpu.max"} |-> Str(500000)]
    /\ properties0 = NoProperties
    /\ properties = [x \in {CPU_QUOTA} |-> U64(500000)]

\* C11: the visit of a "cpu.max" entry whose value has no token (empty or
\* whitespace only) or more than two whitespace-separated tokens makes apply
\* return CpuMax carrying the whole value at once; no call whose map holds such
\* an entry returns Ok, and the quota and the period property stay as they were
\* before the call.
C11_CpuMaxMalformed ==
    (op = "apply" /\ "cpu.max" \in DOMAIN unified
       /\ unified["cpu.max"] \in CpuMaxNoTokens \cup CpuMaxManyTokens) =>
        /\ cur = "cpu.max" =>
              pc = "ret" /\ applied = AErr("CpuMax", "none", "none", unified["cpu.max"])
        /\ ~Visited("cpu.max")
        /\ applied.kind # "ok"
        /\ SameEntry(CPU_QUOTA) /\ SameEntry(CPU_PERIOD)

C11_Witness ==
    /\ Returned("apply")
    /\ Cardinality(DOMAIN unified) = 2
    /\ Visited("memory.low")
    /\ cur = "cpu.max"
    /\ unified["cpu.max"] = <<"1", " ", "2", " ", "3">>
    /\ applied = AErr("CpuMax", "none", "none", <<"1", " ", "2", " ", "3">>)
    /\ properties0 = Preset
    /\ CPU_QUOTA \notin DOMAIN properties
    /\ properties[CPU_PERIOD] = U64(100000)

\* C12: the visit of an entry whose key is none of the nine recognized keys
\* leaves the property set exactly as it was, returns no error, and the loop
\* goes on with the entries that are left.
C12_UnknownKey ==
    [][(op = "apply" /\ cur' \in UnknownKeys /\ cur' # cur) =>
          /\ properties' = properties
          /\ applied' = APending
          /\ pc' = "loop"
          /\ todo' = todo \ {cur'}]_vars

C12_Witness ==
    /\ Returned("apply") /\ applied = AOk
    /\ unified = [k \in {"io.weight", "memory.low"} |-> <<"7">>]
    /\ cur = "memory.low"
    /\ properties0 = Preset
    /\ properties = Insert(Preset, MEMORY_LOW, U64(7))

\* The tokens of a text together with the text itself.
TextOrToken(s) == {s} \cup {split_whitespace(s)[i] : i \in DOMAIN split_whitespace(s)}

\* C13: an error that apply returns for a value that does not parse (of
\* "cpu.weight", of the quota or the period of "cpu.max", of "cpuset.cpus",
\* "cpuset.mems", "memory.*", "pids.max") names the key of the entry it was
\* visiting and holds the parse failure together with the offending text of
\* that entry (for CpuSetCpu the text is left to the BitmaskError it wraps).
\* The code does not satisfy this: the error for a "cpuset.mems" value is
\* CpuSetCpu, which names "cpuset.cpus".
C13_Original_ErrorNamesKeyAndValue ==
    (op = "apply" /\ applied.kind = "err"
       /\ applied.variant \notin {"CpuMax", "OldSystemd"}) =>
        /\ ErrorKey(applied) = cur
        /\ "err" \in ErrorFields(applied.variant) /\ applied.err # "none"
        /\ applied.variant # "CpuSetCpu" =>
              /\ "value" \in ErrorFields(applied.variant)
              /\ applied.value \in TextOrToken(unified[cur])

\* C14: a "pids.max" entry is accepted exactly when its value without the
\* surrounding whitespace is a non-negative integer n, and then the task-count
\* property is n; the visit of any other value, a negative integer included,
\* makes apply return PidsMax with that value and leaves the task-count
\* property as it was.  The code does not satisfy this: a negative integer is
\* accepted and stored as n + 2^64.
C14_Original_PidsMax ==
    (op = "apply" /\ "pids.max" \in DOMAIN unified) =>
        /\ \A n \in PidsNums \cup {7} :
              (Visited("pids.max")
                 /\ unified["pids.max"] \in {Str(n), <<" ">> \o Str(n) \o <<" ">>}) =>
                  Has(properties, TASKS_MAX, U64(n))
        /\ unified["pids.max"] \in NegativeTexts \cup NotIntegers =>
              /\ cur = "pids.max" =>
                    pc = "ret" /\ applied = AErr("PidsMax", applied.err, "none", unified["pids.max"])
              /\ ~Visited("pids.max")
              /\ applied.kind # "ok"
              /\ SameEntry(TASKS_MAX)

\* The memory property that belongs to a memory key.
MemoryProperty(k) ==
    CASE k = "memory.min" -> MEMORY_MIN
      [] k = "memory.low" -> MEMORY_LOW
      [] k = "memory.high" -> MEMORY_HIGH
      [] k = "memory.max" -> MEMORY_MAX

\* C15: the visit of a "memory.min", "memory.low", "memory.high" or
\* "memory.max" entry with the decimal text of n sets the property of that key
\* (min, low, high, max respectively) to n and leaves every other property,
\* the other three memory properties included, as it was, and the loop goes
\* on; the visit of an entry whose value is not an unsigned integer makes apply
\* return the Memory error holding that key and that value, and leaves the
\* property set as it was.
C15_MemoryIndependent ==
    [][(op = "apply" /\ cur' \in MemoryKeys /\ cur' # cur) =>
          LET k == cur'
              v == unified[k]
          IN /\ \A n \in MemoryNums \cup {7} :
                   v = Str(n) =>
                     /\ Has(properties', MemoryProperty(k), U64(n))
                     /\ DOMAIN properties' = DOMAIN properties \cup {MemoryProperty(k)}
                     /\ \A x \in DOMAIN properties :
                           x # MemoryProperty(k) => properties'[x] = properties[x]
                     /\ pc' = "loop" /\ applied' = APending
             /\ v \in Malformed \cup {<<"x">>} =>
                     /\ pc' = "ret"
                     /\ applied' = AErr("Memory", applied'.err, k, v)
                     /\ applied'.err # "none"
                     /\ properties' = properties]_vars

C15_Witness ==
    /\ Returned("apply") /\ applied = AOk
    /\ unified = [k \in {"memory.min", "memory.high"} |-> <<"7">>]
    /\ properties0 = Preset
    /\ properties[MEMORY_MIN] = U64(7) /\ properties[MEMORY_HIGH] = U64(7)
    /\ DOMAIN properties = DOMAIN Preset \cup {MEMORY_MIN, MEMORY_HIGH}

\* C16: MountOption::from_str returns Ok for every token of
\* MountOption::known_options().
C16_KnownOptionsParse ==
    (Returned("MountOption::from_str") /\ token \in KnownOptions) =>
        parsed_option.kind = "ok"

C16_Witness ==
    /\ Returned("MountOption::from_str")
    /\ token = known_options[Len(known_options)]
    /\ parsed_option = POk("Nostrictatime", TRUE, {"MS_STRICTATIME"}, 0)

RecursiveForms == {"rbind", "runbindable", "rprivate", "rshared", "rslave"}

\* C17 as stated: the flags of every token MountOption::from_str accepts are
\* exactly one flag bit.
C17_Original_ExactlyOneBit ==
    (Returned("MountOption::from_str") /\ parsed_option.kind = "ok") =>
        /\ Cardinality(parsed_option.ms) = 1
        /\ parsed_option.bool \in BOOLEAN

\* C17: every token MountOption::from_str accepts maps to one polarity and to
\* flags that are exactly one flag bit, except "defaults", whose flags are
\* empty, and the recursive forms rbind, runbindable, rprivate, rshared and
\* rslave, whose flags are the bit of the plain form together with MS_REC.
C17_FlagBits ==
    (Returned("MountOption::from_str") /\ parsed_option.kind = "ok") =>
        /\ parsed_option.bool \in BOOLEAN
        /\ token = "defaults" => parsed_option.ms = {}
        /\ token \in RecursiveForms =>
              /\ Cardinality(parsed_option.ms) = 2
              /\ "MS_REC" \in parsed_option.ms
        /\ token \notin RecursiveForms \cup {"defaults"} =>
              /\ Cardinality(parsed_option.ms) = 1
              /\ "MS_REC" \notin parsed_option.ms

C17_Witness ==
    /\ Returned("MountOption::from_str")
    /\ token = "rbind"
    /\ parsed_option = POk("Rbind", FALSE, {"MS_BIND", "MS_REC"}, 0)

RecursiveVocabulary ==
    {"rro", "rrw", "rnosuid", "rsuid", "rnodev", "rdev", "rnoexec", "rexec", "rnodiratime",
     "rdiratime", "rrelatime", "rnorelatime", "rnoatime", "ratime", "rstrictatime",
     "rnostrictatime", "rnosymfollow", "rsymfollow"}

\* C18: for a token outside the vocabulary MountOption::from_str returns the
\* error whose payload is the token itself, and for a token outside the
\* recursive vocabulary MountRecursive::from_str returns
\* UnexpectedMountRecursiveOption with the token itself; neither returns a
\* flag.
C18_UnknownTokenRejected ==
    /\ (Returned("MountOption::from_str") /\ token \notin KnownOptions) =>
          parsed_option = PErr("String", token)
    /\ (Returned("MountRecursive::from_str") /\ token \notin RecursiveVocabulary) =>
          parsed_option = PErr("UnexpectedMountRecursiveOption", token)

C18_Witness ==
    /\ Returned("MountRecursive::from_str")
    /\ token = "ro,nosuid"
    /\ parsed_option.kind = "err"
    /\ parsed_option.payload = "ro,nosuid"

PolarityPairs ==
    {<<"rro", "rrw">>, <<"rnosuid", "rsuid">>, <<"rnodev", "rdev">>, <<"rnoexec", "rexec">>,
     <<"rnodiratime", "rdiratime">>, <<"rrelatime", "rnorelatime">>, <<"rnoatime", "ratime">>,
     <<"rstrictatime", "rnostrictatime">>, <<"rnosymfollow", "rsymfollow">>}

\* The token and its opposite map to the same variant and attribute with
\* opposite polarity.
SameBitAsOpposite ==
    \A p \in PolarityPairs :
        token = p[1] =>
            /\ parsed_option.bool = FALSE
            /\ MountRecursive_from_str(p[2]) =
                  POk(parsed_option.variant, TRUE, {}, parsed_option.bits)

\* C19 as stated: the attribute of every token MountRecursive::from_str
\* accepts is a non-zero value with one bit set, and two tokens that differ
\* only in polarity map to the same bit.
C19_Original_OneAttributeBit ==
    (Returned("MountRecursive::from_str") /\ parsed_option.kind = "ok") =>
        /\ parsed_option.bits # 0
        /\ Cardinality(Bits(parsed_option.bits)) = 1
        /\ SameBitAsOpposite

\* C19: every token MountRecursive::from_str accepts maps to one polarity and
\* one attribute value; the value has exactly one bit set, except for
\* rrelatime and rnorelatime, whose value MOUNT_ATTR_RELATIME is 0; two tokens
\* that differ only in polarity map to the same value.
C19_AttributeBits ==
    (Returned("MountRecursive::from_str") /\ parsed_option.kind = "ok") =>
        /\ parsed_option.bool \in BOOLEAN
        /\ token \in {"rrelatime", "rnorelatime"} => parsed_option.bits = 0
        /\ token \notin {"rrelatime", "rnorelatime"} =>
              /\ parsed_option.bits # 0
              /\ Cardinality(Bits(parsed_option.bits)) = 1
        /\ SameBitAsOpposite

C19_Witness ==
    /\ Returned("MountRecursive::from_str")
    /\ token = "rrelatime"
    /\ parsed_option = POk("Relatime", FALSE, {}, 0)

\* The atime-policy bits of an attribute field: those under MOUNT_ATTR__ATIME.
AtimeBits(field) == Bits(field) \cap Bits(MOUNT_ATTR__ATIME)

\* C20 as stated: in the MountAttr that MountAttr::all() returns, attr_set and
\* attr_clr have no atime-policy bit in common and attr_set has at most one
\* atime policy.
C20_Original_AtimeInvariant ==
    Returned("MountAttr::all") =>
        /\ AtimeBits(attr.attr_set) \cap AtimeBits(attr.attr_clr) = {}
        /\ Cardinality(AtimeBits(attr.attr_set)) <= 1

\* C20: MountAttr::all() returns every attribute in both fields: attr_set is
\* 0x2000bf and attr_clr is 0x2000ff, propagation and userns_fd are 0; the
\* noatime and the strictatime bit are in attr_set together and are in
\* attr_clr as well.
C20_MountAttrAll ==
    Returned("MountAttr::all") =>
        /\ attr.attr_set = 2097343
        /\ attr.attr_clr = 2097407
        /\ attr.propagation = 0 /\ attr.userns_fd = 0
        /\ AtimeBits(attr.attr_set) = {4, 5}
        /\ AtimeBits(attr.attr_clr) = {4, 5, 6}

C20_Witness ==
    /\ Returned("MountAttr::all")
    /\ Bits(attr.attr_set) = {0, 1, 2, 3, 4, 5, 7, 21}
    /\ Bits(attr.attr_clr) = {0, 1, 2, 3, 4, 5, 6, 7, 21}

\* The unit names of the model that end in "slice".
SliceNames == {<<"b", ".", "s", "l", "i", "c", "e">>, <<"s", "l", "i", "c", "e">>,
               <<"a", "s", "l", "i", "c", "e">>}

\* C21: the request start_transient_unit has sent when it returns is
\* StartTransientUnit(unit_name, "replace", properties, []) where properties
\* is, in order: Description; Wants=parent alone when the unit name ends in
\* "slice", Slice=parent and Delegate=true otherwise; MemoryAccounting,
\* CPUAccounting, IOAccounting, TasksAccounting, all true;
\* DefaultDependencies=false; PIDs=[pid].
C21_StartTransientUnitRequest ==
    Returned("start_transient_unit") =>
        /\ Len(trace) = 1
        /\ trace[1][1] = "StartTransientUnit"
        /\ trace[1][2][1] = cargs.unit_name
        /\ trace[1][2][2] = "replace"
        /\ trace[1][2][4] = <<>>
        /\ LET properties_sent == trace[1][2][3]
           IN /\ properties_sent[1][1] = "Description"
              /\ Tail(properties_sent) =
                    (IF cargs.unit_name \in SliceNames
                     THEN <<<<"Wants", VStr(cargs.parent)>>>>
                     ELSE <<<<"Slice", VStr(cargs.parent)>>, <<"Delegate", VBool(TRUE)>>>>)
                    \o <<<<"MemoryAccounting", VBool(TRUE)>>,
                         <<"CPUAccounting", VBool(TRUE)>>,
                         <<"IOAccounting", VBool(TRUE)>>,
                         <<"TasksAccounting", VBool(TRUE)>>,
                         <<"DefaultDependencies", VBool(FALSE)>>,
                         <<"PIDs", VArrayU32(<<cargs.pid>>)>>>>

C21_Witness ==
    /\ Returned("start_transient_unit")
    /\ cresult.kind = "ok"
    /\ cargs.unit_name = <<"b", ".", "s", "l", "i", "c", "e">>
    /\ cargs.parent = <<"p", ".", "s", "l", "i", "c", "e">>
    /\ cargs.pid = 4242
    /\ Len(trace[1][2][3]) = 8
    /\ trace[1][2][3][2] = <<"Wants", VStr(<<"p", ".", "s", "l", "i", "c", "e">>)>>
    /\ trace[1][2][3][8] = <<"PIDs", VArrayU32(<<4242>>)>>

\* C22: transient_unit_exists returns no error: it returns true when the
\* GetUnit request succeeded and false when the request failed, whatever the
\* error.
C22_UnitExistsNeverFails ==
    Returned("transient_unit_exists") =>
        /\ trace[1][1] = "GetUnit"
        /\ cresult.kind = "ok"
        /\ cresult.value = VBool(trace[1][3] = "ok")

C22_Witness ==
    /\ Returned("transient_unit_exists")
    /\ trace[1][3] = "NoReply"
    /\ cresult = COk(VBool(FALSE))

\* The request each client operation sends.
RequestOf(o) ==
    CASE o = "transient_unit_exists" -> "GetUnit"
      [] o = "start_transient_unit" -> "StartTransientUnit"
      [] o = "stop_transient_unit" -> "StopUnit"
      [] o = "set_unit_properties" -> "SetUnitProperties"
      [] o \in {"systemd_version", "control_cgroup_root"} -> "Get"

\* C23: a client operation never has more than one request on the bus, and
\* when it returns it has sent exactly one, its own, whether the request
\* succeeded or failed.
C23_OneRequest ==
    op \in ClientOps =>
        /\ Len(trace) <= 1
        /\ pc = "ret" => Len(trace) = 1 /\ trace[1][1] = RequestOf(op)

C23_Witness ==
    /\ Returned("stop_transient_unit")
    /\ cresult.kind = "err"
    /\ trace = <<Req("StopUnit", <<cargs.unit_name, "replace">>, "NoReply")>>

\* C24: start_transient_unit, stop_transient_unit and set_unit_properties
\* return Ok exactly when their request succeeded; when it failed they return
\* FailedTransient with the unit name and the parent, FailedStop with the unit
\* name and FailedProperties with the unit name respectively, each with the
\* error of the request.
C24_FailureNamesUnit ==
    /\ Returned("start_transient_unit") =>
          IF trace[1][3] = "ok" THEN cresult.kind = "ok"
          ELSE cresult = CErr("FailedTransient", trace[1][3], cargs.unit_name, cargs.parent)
    /\ Returned("stop_transient_unit") =>
          IF trace[1][3] = "ok" THEN cresult.kind = "ok"
          ELSE cresult = CErr("FailedStop", trace[1][3], cargs.unit_name, <<>>)
    /\ Returned("set_unit_properties") =>
          IF trace[1][3] = "ok" THEN cresult.kind = "ok"
          ELSE cresult = CErr("FailedProperties", trace[1][3], cargs.unit_name, <<>>)

C24_Witness ==
    /\ Returned("start_transient_unit")
    /\ trace[1][3] = "MethodError"
    /\ cresult.variant = "FailedTransient"
    /\ cresult.unit_name = <<"a", ".", "s", "c", "o", "p", "e">>
    /\ cresult.parent = <<"p", ".", "s", "l", "i", "c", "e">>

\* C25: when the Get request of systemd_version succeeded: a reply that is no
\* string is an error; for a string made of alphabetic characters, the decimal
\* text of n and a rest that does not start with a numeric character,
\* systemd_version returns n ("245", "v245" and "245.4-1" give 245); when the
\* run of numeric characters after the alphabetic ones is empty, is above
\* 4294967295, or is not a decimal text, it returns the SystemdVersion error.
C25_SystemdVersion ==
    (Returned("systemd_version") /\ trace[1][3] = "ok") =>
        LET body == trace[1][4]
        IN /\ body.t # "Str" => cresult.kind = "err"
           /\ body.t = "Str" =>
                 /\ \A l \in VersionPrefixes, n \in VersionNums, r \in VersionRests :
                       body.bytes = l \o Str(n) \o r => cresult = COk(VU32(n))
                 /\ body.bytes \in {<<"2", "4", "5">>, <<"v", "2", "4", "5">>,
                                    <<"2", "4", "5", ".", "4", "-", "1">>,
                                    <<"0", "2", "4", "5">>} =>
                       cresult = COk(VU32(245))
                 /\ body.bytes \in BadVersionTexts =>
                       cresult.kind = "err" /\ cresult.variant = "SystemdVersion"

C25_Witness ==
    /\ Returned("systemd_version")
    /\ trace[1][4] = VStr(<<"2", "4", "5", ".", "4", "-", "1">>)
    /\ cresult = COk(VU32(245))

\* The fallback of close_range has started: it is at, or has issued, one of its
\* own steps.
FallbackRan ==
    \/ pc \in {"get_open_fds", "fcntl"}
    \/ \E i \in DOMAIN trace : trace[i][1] \in {"read_dir", "fcntl"}

\* C26: once close_range(preserve_fds) has the kernel's answer, the userspace
\* fallback runs exactly when that answer is ENOSYS or EINVAL; on success the
\* call returns Ok with the kernel request as its only step, and on any other
\* failure code it returns that code as an error, again with no further step.
C26_FallbackExactly ==
    (op = "close_range" /\ trace # <<>>) =>
        LET r == trace[1][3]
        IN /\ trace[1][1] = "close_range"
           /\ FallbackRan <=> r \in {"ENOSYS", "EINVAL"}
           /\ r = "ok" => pc = "ret" /\ result = Ok /\ Len(trace) = 1
           /\ r \in Errnos \ {"ENOSYS", "EINVAL"} =>
                 pc = "ret" /\ result = Err(r) /\ Len(trace) = 1 /\ fds = fds0

C26_Witness ==
    /\ Returned("close_range")
    /\ trace[1][3] = "EINVAL"
    /\ result = Ok
    /\ \E i \in DOMAIN trace : trace[i][1] = "fcntl"
    /\ fds # fds0

\* The orders in which a hash map with the keys K can yield its entries.
Orders(K) ==
    {o \in [1..Cardinality(K) -> K] : \A i, j \in DOMAIN o : o[i] = o[j] => i = j}

\* The loop of Unified::apply run over the entries of m in the given order.
RECURSIVE ApplyInOrder(_, _, _, _)
ApplyInOrder(order, m, ver, props) ==
    IF order = <<>>
    THEN Step(props, AOk)
    ELSE LET r == apply_entry(order[1], m[order[1]], ver, props)
         IN IF r.ret.kind # "ok"
            THEN r
            ELSE ApplyInOrder(Tail(order), m, ver, r.props)

\* Every entry of the map is accepted on its own.
AllValid(m, ver) ==
    \A k \in DOMAIN m : apply_entry(k, m[k], ver, NoProperties).ret.kind = "ok"

\* The property names the entry k of the map writes.
Written(m, k, ver) == DOMAIN apply_entry(k, m[k], ver, NoProperties).props

\* C27: when every entry of the override map is valid, Unified::apply succeeds
\* and the property set it leaves is the one that visiting the entries in any
\* order gives; no two distinct keys of the map write the same property name.
C27_OrderIndependent ==
    (Returned("apply") /\ AllValid(unified, systemd_version)) =>
        /\ applied = AOk
        /\ \A o \in Orders(DOMAIN unified) :
              ApplyInOrder(o, unified, systemd_version, properties0)
                 = Step(properties, AOk)
        /\ \A k1, k2 \in DOMAIN unified :
              k1 # k2 =>
                 Written(unified, k1, systemd_version)
                    \cap Written(unified, k2, systemd_version) = {}

C27_Witness ==
    /\ Returned("apply")
    /\ unified = [k \in {"cpu.weight", "cpu.max"} |->
                     IF k = "cpu.max" THEN <<"5", " ", "6">> ELSE <<"7">>]
    /\ properties0 = Preset
    /\ cur = "cpu.weight"
    /\ properties[CPU_WEIGHT] = U64(1)
    /\ properties[CPU_QUOTA] = U64(5) /\ properties[CPU_PERIOD] = U64(6)

\* C28: when Unified::apply returns an error, every property written for an
\* entry visited before the failing one is still in the property set with the
\* value that entry gave it; and when the failing entry is "cpu.max" with a
\* valid quota token and an unparsable period token, the error is CpuPeriod,
\* the quota is in the property set and the period property is as it was.
C28_NoRollback ==
    (Returned("apply") /\ applied.kind = "err") =>
        /\ \A k \in DOMAIN unified \ todo :
              LET alone == apply_entry(k, unified[k], systemd_version, NoProperties).props
              IN \A name \in DOMAIN alone : Has(properties, name, alone[name])
        /\ cur = "cpu.max" =>
              LET parts == split_whitespace(unified["cpu.max"])
              IN (Len(parts) = 2 /\ parse_u64(parts[1]).ok /\ ~parse_u64(parts[2]).ok) =>
                    /\ applied.variant = "CpuPeriod"
                    /\ applied.value = parts[2]
                    /\ Has(properties, CPU_QUOTA, U64(parse_u64(parts[1]).v))
                    /\ SameEntry(CPU_PERIOD)

C28_Witness ==
    /\ Returned("apply")
    /\ unified = [k \in {"memory.low", "cpu.max"} |->
                     IF k = "cpu.max" THEN <<"5", " ", "x">> ELSE <<"7">>]
    /\ properties0 = NoProperties
    /\ todo = {"cpu.max"}
    /\ applied.variant = "CpuPeriod"
    /\ properties = Insert(Insert(NoProperties, MEMORY_LOW, U64(7)), CPU_QUOTA, U64(5))

\* C29: in pivot_rootfs the close request is issued only after open,
\* pivot_root, the slave remount, the detach-unmount and fchdir have all
\* succeeded, and the handle is not closed otherwise: when one of the four
\* steps after the open fails, the call returns that error with the handle
\* open; when the open fails there is no handle, and the open is the only
\* request made.
C29_HandleClosedOnlyOnSuccess ==
    op = "pivot_rootfs" =>
        /\ (newroot = "closed" \/ \E i \in DOMAIN trace : trace[i][1] = "close") =>
              /\ Len(trace) = 6
              /\ Calls(trace) = PivotRootfsCalls(path)
              /\ \A i \in 1..5 : trace[i][3] = "ok"
        /\ (pc = "ret" /\ Len(trace) \in 2..5) =>
              /\ LastCall \in {"pivot_root", "mount", "umount2", "fchdir"}
              /\ trace[Len(trace)][3] \in Errnos
              /\ result = Err(trace[Len(trace)][3])
              /\ newroot = "open"
        /\ (trace # <<>> /\ trace[1][3] # "ok") =>
              /\ pc = "ret" /\ result = Err(trace[1][3])
              /\ newroot = "none"
              /\ Len(trace) = 1 /\ mnt = Mnt0

C29_Witness ==
    /\ Returned("pivot_rootfs")
    /\ LastCall = "fchdir"
    /\ result = Err("EINVAL")
    /\ newroot = "open"
    /\ mnt = [root |-> path, oldroot |-> "detached", cwd |-> "host"]

PositiveTokens ==
    {"ro", "nosuid", "nodev", "noexec", "sync", "dirsync", "remount", "mand", "noatime",
     "nodiratime", "bind", "rbind", "unbindable", "runbindable", "private", "rprivate",
     "shared", "rshared", "slave", "rslave", "relatime", "strictatime"}

\* A negating token and the positive token it negates.
NegatingPairs ==
    {<<"rw", "ro">>, <<"suid", "nosuid">>, <<"dev", "nodev">>, <<"exec", "noexec">>,
     <<"async", "sync">>, <<"nomand", "mand">>, <<"atime", "noatime">>,
     <<"diratime", "nodiratime">>, <<"norelatime", "relatime">>,
     <<"nostrictatime", "strictatime">>}

\* C30 as stated: every token of MountOption::from_str that names a flag
\* positively carries the polarity of "ro", and every negating token carries
\* the opposite polarity on the flag of its positive counterpart.
C30_Original_PolarityConsistent ==
    (Returned("MountOption::from_str") /\ parsed_option.kind = "ok") =>
        LET set == MountOption_from_str("ro").bool
        IN /\ token \in PositiveTokens => parsed_option.bool = set
           /\ \A p \in NegatingPairs :
                 token = p[1] =>
                    /\ parsed_option.bool = ~set
                    /\ parsed_option.ms = MountOption_from_str(p[2]).ms
                    /\ MountOption_from_str(p[2]).bool = set

=============================================================================
